---- MODULE Spec2Model ----
(***************************************************************************)
(* Model of the connection-and-protocol engine of ethernet-uart-fpga:      *)
(* Server (src/src/server.py) and ProgramManager                           *)
(* (src/src/programManager.py).                                            *)
(*                                                                         *)
(* Threads: "srv" is the Server thread (Server.run); "cli" is the console  *)
(* thread that calls ProgramManager._handleCommand and the public Server   *)
(* operations; the decode loop (ProgramManager._handleReceivedData) and    *)
(* the peer are separate actions.                                          *)
(*                                                                         *)
(* Bytes are integers 0..255, byte strings are sequences of bytes, and     *)
(* Python's None where a byte string is expected is the value None below.  *)
(***************************************************************************)
EXTENDS Integers, Sequences, FiniteSets, TLC

\* ------------------------------------------------------------------ bounds
\* bufferSize of the Server (512 in the program), scaled down
BufferSize == 8
\* what happens to the Server from outside in one run: connection attempts,
\* blocks sent, closes and resets of the peers, calls of the console thread
MaxEvents == 5
\* length in bytes of the longest file given to sendFile
MaxFileLen == 15

\* ------------------------------------------------- Python integer operators
RECURSIVE BitAnd(_, _)
\* a & b for a, b >= 0
BitAnd(a, b) ==
    IF a = 0 \/ b = 0 THEN 0
    ELSE (IF a % 2 = 1 /\ b % 2 = 1 THEN 1 ELSE 0) + 2 * BitAnd(a \div 2, b \div 2)

RECURSIVE BitAndNot(_, _)
\* a & ~b for a, b >= 0
BitAndNot(a, b) ==
    IF a = 0 THEN 0
    ELSE (IF a % 2 = 1 /\ b % 2 = 0 THEN 1 ELSE 0) + 2 * BitAndNot(a \div 2, b \div 2)

RECURSIVE BitOrNat(_, _)
\* a | b for a, b >= 0
BitOrNat(a, b) ==
    IF a = 0 THEN b
    ELSE IF b = 0 THEN a
    ELSE (IF a % 2 = 1 \/ b % 2 = 1 THEN 1 ELSE 0) + 2 * BitOrNat(a \div 2, b \div 2)

\* ~a on Python's unbounded two's-complement integers
BitNot(a) == (0 - a) - 1

\* a | b on Python's unbounded two's-complement integers
BitOr(a, b) ==
    IF a >= 0 /\ b >= 0 THEN BitOrNat(a, b)
    ELSE IF a < 0 /\ b < 0 THEN BitNot(BitAnd(BitNot(a), BitNot(b)))
    ELSE IF a < 0 THEN BitNot(BitAndNot(BitNot(a), b))
    ELSE BitNot(BitAndNot(BitNot(b), a))

\* a << n
ShiftLeft(a, n) == a * (2 ^ n)

\* a >> n (floor division, as Python)
ShiftRight(a, n) == a \div (2 ^ n)

\* ------------------------------------------------------------- byte strings
None == <<-1>>

\* truth value of a bytes-or-None value
Truthy(b) == b # None /\ Len(b) > 0

Zeros(n) == [i \in 1..n |-> 0]

\* bytes.ljust(n, b'\x00')
Ljust(b, n) == IF Len(b) >= n THEN b ELSE b \o Zeros(n - Len(b))

\* bytes[1:]
Tail1(b) == IF Len(b) <= 1 THEN <<>> ELSE SubSeq(b, 2, Len(b))

\* the first n bytes of b, and the rest
Take(b, n) == IF Len(b) <= n THEN b ELSE SubSeq(b, 1, n)
Drop(b, n) == IF Len(b) <= n THEN <<>> ELSE SubSeq(b, n + 1, Len(b))

\* ------------------------------------------------------ framed command codec
\* (hw << 7) | (cmd << 4) | info
EncodeHeader(hw, cmd, info) == BitOr(BitOr(ShiftLeft(hw, 7), ShiftLeft(cmd, 4)), info)

\* bytes([v]) raises ValueError unless v is in range(256)
IsByte(v) == v >= 0 /\ v <= 255

\* a frame that is the header byte alone, without the padding
CommandFrameBare(hw, cmd, info) == <<EncodeHeader(hw, cmd, info)>>

\* toSend of _sendCommand
CommandFrame(hw, cmd, info) == Ljust(<<EncodeHeader(hw, cmd, info)>>, BufferSize)

\* hw = cmd >> 7
DecodeHw(b) == ShiftRight(b, 7)

\* info = cmd & 0b1111
DecodeInfo(b) == BitAnd(b, 15)

\* a decode that forgets the mask of the command field
DecodeCmdNoMask(b) == ShiftRight(b, 4)

\* cmd = (cmd >> 4) & 0b111
DecodeCmd(b) == BitAnd(ShiftRight(b, 4), 7)

Decode(b) == <<DecodeHw(b), DecodeCmd(b), DecodeInfo(b)>>

\* an info check that is off by one at the top
ValidInfoLoose(info) == info >= 0 /\ info <= 16

\* the parameter checks of _sendCommand
ValidHw(hw) == hw = 0 \/ hw = 1
ValidCmd(cmd) == cmd >= 0 /\ cmd <= 7
ValidInfo(info) == info >= 0 /\ info <= 15

\* a chunk header that sets the target bit instead of the command
FileHeaderTarget(info) == BitOr(ShiftLeft(1, 7), info)

\* (1 << 4) | info, the header of a file chunk
FileHeader(info) == BitOr(ShiftLeft(1, 4), info)

\* ------------------------------------------------- identification predicate
validMacAddresses ==
    { <<0, 10, 53, 0, 1, 2>>, <<1, 35, 69, 103, 137, 171, 205>> }

\* a predicate that compares the whole reply, header byte included
testMACAddressWhole(identification) == identification \in validMacAddresses

\* testMACAddress: identification[1:] in validMacAddresses
testMACAddress(identification) == Tail1(identification) \in validMacAddresses

\* -------------------------------------------------------------------- state
VARIABLES
    serverOpen,       \* Server._serverOpen
    connectedSocket,  \* Server._connectedSocket: 0 is None, else the connection
    receivedData,     \* Server._receivedData, the inbound queue
    lsock,            \* Server._socket: "fresh" (unbound) or "listening"
    sockOpen,         \* the accepted connections whose socket is not closed
    nconn,            \* connections accepted so far (the newest is nconn)
    pending,          \* peers waiting in the listen backlog
    peer,             \* peer end of the newest connection: "up", "fin", "rst"
    inbuf,            \* bytes the peer sent that no recv has taken yet
    events,           \* what happened from outside so far
    srvSent,          \* blocks the Server thread wrote to the newest connection
    pc,               \* position of each thread
    allData,          \* local allData of _receiveData, per thread
    blocking,         \* parameter blocking of _receiveData, per thread
    call,             \* the call the console thread is making, or made last
    callSent,         \* blocks the current or last console call wrote to its peer
    result,           \* how the last console call ended
    ncalls,           \* console calls started so far
    filePos,          \* read position of sendFile in its file
    amountOfDataSent, \* local amountOfDataSent of sendFile
    hrdRunning,       \* ProgramManager._handleReceivedDataRunning
    termRunning,      \* Terminal._running: the console still takes commands
    popResult,        \* what the last pop of the decode loop gave
    decoded,          \* (hw, cmd, info) of the block the decode loop took last
    input,            \* the arguments of the direct calls of this run
    appended,         \* every block appended to the inbound queue, in order
    popped            \* every block popped from the inbound queue, in order

srvObj == <<serverOpen, connectedSocket, receivedData, lsock, sockOpen>>
netVars == <<nconn, pending, peer, inbuf, events, srvSent>>
thrVars == <<pc, allData, blocking>>
cliVars == <<call, callSent, result, ncalls, filePos, amountOfDataSent>>
pmVars == <<hrdRunning, termRunning, popResult, decoded, popped>>
vars == <<srvObj, netVars, thrVars, cliVars, pmVars, input, appended>>

\* the threads that run Server code, and all threads
Threads == {"srv", "cli"}
AllThreads == {"srv", "cli", "pm"}

NoCall == [op |-> "none", command |-> "", kind |-> "none", n |-> 0,
           hw |-> 0, cmd |-> 0, info |-> 0, len |-> 0]

\* the arguments of a run: those of its direct calls, the predicate the
\* Server is given ("default" is testMACAddress, "custom" is the user's own),
\* and what the operator types behind "custom": the digits of the word behind
\* -b ("10101010") and the words of a text line ("w"), as character codes;
\* and the reply of the peer of the runs that try the predicate
NoInput == [hw |-> 0, cmd |-> 0, info |-> 0, len |-> 0, pred |-> "default",
            bits |-> <<1, 0, 1, 0, 1, 0, 1, 0>>, words |-> << <<119>> >>,
            reply |-> <<0, 0, 10, 53, 0, 1, 2>>]

\* the state after construction, but for the arguments of the direct calls,
\* with the Server thread at position loc
InitAt(loc) ==
    /\ serverOpen = FALSE
    /\ connectedSocket = 0
    /\ receivedData = <<>>
    /\ lsock = "fresh"
    /\ sockOpen = {}
    /\ nconn = 0
    /\ pending = 0
    /\ peer = "up"
    /\ inbuf = <<>>
    /\ events = 0
    /\ srvSent = <<>>
    /\ pc = [t \in AllThreads |->
                IF t = "cli" THEN "idle" ELSE IF t = "srv" THEN loc ELSE "start"]
    /\ allData = [t \in Threads |-> None]
    /\ blocking = [t \in Threads |-> FALSE]
    /\ call = NoCall
    /\ callSent = <<>>
    /\ result = "none"
    /\ ncalls = 0
    /\ filePos = 0
    /\ amountOfDataSent = 0
    /\ hrdRunning = FALSE
    /\ termRunning = TRUE
    /\ popResult = "none"
    /\ decoded = <<0, 0, 0>>
    /\ appended = <<>>
    /\ popped = <<>>

\* the same, with the Server thread started and about to run Server.run
InitProgram == InitAt("start")

Init ==
    /\ InitProgram
    /\ input = NoInput

\* an exception that ends whatever thread it is raised in
RaiseEscapes(t, kind) ==
    /\ pc' = [pc EXCEPT ![t] = "crashed"]
    /\ UNCHANGED <<result>>

\* ------------------------------------------------- how an exception ends
\* An exception raised in Server.run is caught nowhere: the thread dies.
\* One raised under a console call ends the call with that error.
Raise(t, kind) ==
    IF t = "srv"
    THEN /\ pc' = [pc EXCEPT ![t] = "crashed"]
         /\ UNCHANGED <<result>>
    ELSE /\ pc' = [pc EXCEPT ![t] = "idle"]
         /\ result' = kind

\* an _open that sets the open flag whether or not bind and listen worked
S_OpenFlagsAlways ==
    /\ pc["srv"] = "start"
    /\ \E bound \in BOOLEAN :
         IF bound
         THEN /\ lsock' = "listening"
              /\ serverOpen' = TRUE
              /\ pc' = [pc EXCEPT !["srv"] = "loop"]
         ELSE /\ pc' = [pc EXCEPT !["srv"] = "crashed"]
              /\ serverOpen' = TRUE
              /\ UNCHANGED <<lsock>>
    /\ UNCHANGED <<connectedSocket, receivedData, sockOpen, netVars, allData,
                   blocking, cliVars, pmVars, input, appended>>

\* ----------------------------------------------------------- Server._open
\* bind or listen may fail: _open logs and raises again (124-126), run has no
\* handler and the Server thread ends; else the open flag is set (128).
S_Open ==
    /\ pc["srv"] = "start"
    /\ \E bound \in BOOLEAN :
         IF bound
         THEN /\ lsock' = "listening"
              /\ serverOpen' = TRUE
              /\ pc' = [pc EXCEPT !["srv"] = "loop"]
         ELSE /\ pc' = [pc EXCEPT !["srv"] = "crashed"]
              /\ UNCHANGED <<lsock, serverOpen>>
    /\ UNCHANGED <<connectedSocket, receivedData, sockOpen, netVars, allData,
                   blocking, cliVars, pmVars, input, appended>>

\* a run loop that looks for a peer on every turn
RunLooksForPeerAlways(cs) == TRUE

\* the test of Server.run that sends the loop to _accept
RunLooksForPeer(cs) == cs = 0

\* ------------------------------------------- Server.run, top of the loop
S_Loop ==
    /\ pc["srv"] = "loop"
    /\ IF ~serverOpen
       THEN /\ pc' = [pc EXCEPT !["srv"] = "done"]
            /\ UNCHANGED <<connectedSocket, allData, blocking>>
       ELSE IF RunLooksForPeer(connectedSocket)
       THEN \* _accept starts by clearing _connectedSocket
            /\ connectedSocket' = 0
            /\ pc' = [pc EXCEPT !["srv"] = "accept"]
            /\ UNCHANGED <<allData, blocking>>
       ELSE \* self._receiveData()
            /\ pc' = [pc EXCEPT !["srv"] = "rd_first"]
            /\ allData' = [allData EXCEPT !["srv"] = None]
            /\ blocking' = [blocking EXCEPT !["srv"] = FALSE]
            /\ UNCHANGED connectedSocket
    /\ UNCHANGED <<serverOpen, receivedData, lsock, sockOpen, netVars, cliVars,
                   pmVars, input, appended>>

\* a run loop that goes from _accept straight to _receiveData
S_AcceptNoIdent ==
    /\ pc["srv"] = "accept"
    /\ IF ~(serverOpen /\ connectedSocket = 0)
       THEN /\ pc' = [pc EXCEPT !["srv"] = "loop"]
            /\ UNCHANGED <<connectedSocket, sockOpen, netVars, call>>
       ELSE /\ lsock = "listening"
            /\ pending > 0
            /\ nconn' = nconn + 1
            /\ pending' = pending - 1
            /\ connectedSocket' = nconn + 1
            /\ sockOpen' = sockOpen \cup {nconn + 1}
            /\ peer' = "up"
            /\ inbuf' = <<>>
            /\ srvSent' = <<>>
            /\ pc' = [pc EXCEPT !["srv"] = "rd_first"]
            /\ UNCHANGED <<call, events>>
    /\ UNCHANGED <<serverOpen, receivedData, lsock, allData, blocking,
                   callSent, result, ncalls, filePos, amountOfDataSent,
                   pmVars, input, appended>>

\* --------------------------------------------------------- Server._accept
\* One turn of the while loop. A timeout or an OSError of accept() loops
\* without changing anything, so only the other outcomes are steps.
S_Accept ==
    /\ pc["srv"] = "accept"
    /\ IF ~(serverOpen /\ connectedSocket = 0)
       THEN \* the loop ends, _accept returns None and run continues
            /\ pc' = [pc EXCEPT !["srv"] = "loop"]
            /\ UNCHANGED <<connectedSocket, sockOpen, netVars, call>>
       ELSE /\ lsock = "listening"
            /\ pending > 0
            /\ nconn' = nconn + 1
            /\ pending' = pending - 1
            /\ connectedSocket' = nconn + 1
            /\ sockOpen' = sockOpen \cup {nconn + 1}
            /\ peer' = "up"
            /\ inbuf' = <<>>
            /\ srvSent' = <<>>
            \* askIdentification: self._sendCommand(0, 0, 0)
            /\ pc' = [pc EXCEPT !["srv"] = "sc_check"]
            /\ UNCHANGED <<call, events>>
    /\ UNCHANGED <<serverOpen, receivedData, lsock, allData, blocking,
                   callSent, result, ncalls, filePos, amountOfDataSent,
                   pmVars, input, appended>>

\* a thread goes on to another position
Goto(t, loc) ==
    /\ pc' = [pc EXCEPT ![t] = loc]
    /\ UNCHANGED result

\* the arguments of the _sendCommand a thread is in
ArgHw(t) == IF t = "srv" THEN 0 ELSE call.hw
ArgCmd(t) == IF t = "srv" THEN 0 ELSE call.cmd
ArgInfo(t) == IF t = "srv" THEN 0 ELSE call.info

\* a _sendCommand without its connection check
SendCommandSeesClientAlways(cs) == TRUE

\* the first check of _sendCommand: is a client connected
SendCommandSeesClient(cs) == cs # 0

\* the parameter checks of _sendCommand, taken together
SendCommandAccepts(hw, cmd, info) == ValidHw(hw) /\ ValidCmd(cmd) /\ ValidInfo(info)

\* ---------------------------------- Server._sendCommand, up to the checks
SC_Check(t) ==
    /\ pc[t] = "sc_check"
    /\ IF ~SendCommandSeesClient(connectedSocket)
       THEN Raise(t, "NotConnected")
       ELSE IF ~SendCommandAccepts(ArgHw(t), ArgCmd(t), ArgInfo(t))
       THEN Raise(t, "Protocol")
       ELSE Goto(t, "sc_send")
    /\ UNCHANGED <<srvObj, netVars, allData, blocking, call, callSent, ncalls,
                   filePos, amountOfDataSent, pmVars, input, appended>>

\* what follows a sent command: askIdentification reads the reply, any other
\* caller is done
AfterSend(t) ==
    IF t = "srv" \/ call.command = "id"
    THEN /\ Goto(t, "rd_first")
         /\ allData' = [allData EXCEPT ![t] = None]
         /\ blocking' = [blocking EXCEPT ![t] = TRUE]
    ELSE /\ pc' = [pc EXCEPT ![t] = "idle"]
         /\ result' = "ok"
         /\ UNCHANGED <<allData, blocking>>

\* ------------------------------------- Server._sendCommand, the sendall
\* sendall raises when _connectedSocket was cleared meanwhile, and may raise
\* when the peer is gone; the except clause turns both into socket.error.
SC_Send(t) ==
    /\ pc[t] = "sc_send"
    /\ \/ /\ connectedSocket # 0
          /\ IF t = "srv"
             THEN /\ srvSent' = Append(srvSent, CommandFrame(ArgHw(t), ArgCmd(t), ArgInfo(t)))
                  /\ UNCHANGED callSent
             ELSE /\ callSent' = Append(callSent, CommandFrame(ArgHw(t), ArgCmd(t), ArgInfo(t)))
                  /\ UNCHANGED srvSent
          /\ AfterSend(t)
       \/ /\ connectedSocket = 0 \/ peer # "up"
          /\ Raise(t, "Transmission")
          /\ UNCHANGED <<srvSent, callSent, allData, blocking>>
    /\ UNCHANGED <<srvObj, nconn, pending, peer, inbuf, events, call, ncalls,
                   filePos, amountOfDataSent, pmVars, input, appended>>

\* where _receiveData returns to
AfterReceive(t) ==
    IF t = "cli" THEN "verdict"
    ELSE IF blocking[t] THEN "verdict" ELSE "loop"

\* ------------------------------- Server._receiveData, the first recv (181)
\* With nothing to read and the peer up, recv raises EAGAIN: a blocking call
\* sleeps and tries again (no step), a non-blocking call leaves the loop.
\* With nothing to read and the peer closed, recv returns b"": a blocking
\* call loops, a non-blocking call leaves the loop.
RD_First(t) ==
    /\ pc[t] = "rd_first"
    /\ IF connectedSocket = 0
       THEN /\ Raise(t, "TypeError")
            /\ UNCHANGED <<allData, inbuf>>
       ELSE IF inbuf # <<>>
       THEN /\ allData' = [allData EXCEPT ![t] = Take(inbuf, BufferSize)]
            /\ inbuf' = Drop(inbuf, BufferSize)
            /\ Goto(t, IF Len(Take(inbuf, BufferSize)) >= BufferSize
                       THEN "rd_more" ELSE "rd_done")
       ELSE IF peer = "rst"
       THEN /\ Raise(t, "ConnectionReset")
            /\ UNCHANGED <<allData, inbuf>>
       ELSE IF peer = "fin"
       THEN /\ allData[t] # <<>> \/ ~blocking[t]
            /\ allData' = [allData EXCEPT ![t] = <<>>]
            /\ Goto(t, IF blocking[t] THEN "rd_first" ELSE "rd_done")
            /\ UNCHANGED inbuf
       ELSE /\ ~blocking[t]
            /\ Goto(t, "rd_done")
            /\ UNCHANGED <<allData, inbuf>>
    /\ UNCHANGED <<srvObj, nconn, pending, peer, events, srvSent, blocking, call,
                   callSent, ncalls, filePos, amountOfDataSent, pmVars, input, appended>>

\* further recvs that keep only what the last one returned
RD_MoreOverwrites(t) ==
    /\ pc[t] = "rd_more"
    /\ IF connectedSocket = 0
       THEN /\ Raise(t, "TypeError")
            /\ UNCHANGED <<allData, inbuf>>
       ELSE IF inbuf # <<>>
       THEN /\ allData' = [allData EXCEPT ![t] = Take(inbuf, BufferSize)]
            /\ inbuf' = Drop(inbuf, BufferSize)
            /\ Goto(t, IF Len(Take(inbuf, BufferSize)) >= BufferSize
                       THEN "rd_more" ELSE "rd_done")
       ELSE IF peer = "rst"
       THEN /\ Raise(t, "ConnectionReset")
            /\ UNCHANGED <<allData, inbuf>>
       ELSE IF peer = "fin"
       THEN /\ Goto(t, "rd_done")
            /\ UNCHANGED <<allData, inbuf>>
       ELSE /\ Goto(t, IF blocking[t] THEN "rd_first" ELSE "rd_done")
            /\ UNCHANGED <<allData, inbuf>>
    /\ UNCHANGED <<srvObj, nconn, pending, peer, events, srvSent, blocking, call,
                   callSent, ncalls, filePos, amountOfDataSent, pmVars, input, appended>>

\* ---------------------------- Server._receiveData, the further recvs (184)
RD_More(t) ==
    /\ pc[t] = "rd_more"
    /\ IF connectedSocket = 0
       THEN /\ Raise(t, "TypeError")
            /\ UNCHANGED <<allData, inbuf>>
       ELSE IF inbuf # <<>>
       THEN /\ allData' = [allData EXCEPT ![t] = allData[t] \o Take(inbuf, BufferSize)]
            /\ inbuf' = Drop(inbuf, BufferSize)
            /\ Goto(t, IF Len(Take(inbuf, BufferSize)) >= BufferSize
                       THEN "rd_more" ELSE "rd_done")
       ELSE IF peer = "rst"
       THEN /\ Raise(t, "ConnectionReset")
            /\ UNCHANGED <<allData, inbuf>>
       ELSE IF peer = "fin"
       THEN \* recv returns b"", allData is kept and is not empty
            /\ Goto(t, "rd_done")
            /\ UNCHANGED <<allData, inbuf>>
       ELSE \* EAGAIN: blocking goes back to the first recv, which overwrites
            \* allData; non-blocking leaves the loop
            /\ Goto(t, IF blocking[t] THEN "rd_first" ELSE "rd_done")
            /\ UNCHANGED <<allData, inbuf>>
    /\ UNCHANGED <<srvObj, nconn, pending, peer, events, srvSent, blocking, call,
                   callSent, ncalls, filePos, amountOfDataSent, pmVars, input, appended>>

\* self._receivedData.append(allData)
QueueAppend(q, b) == Append(q, b)

\* a disconnect test that also takes "nothing read" for a disconnect
IsSentinelOrNothing(b) == b = <<255>> \/ b = None

\* the disconnect test of _receiveData: allData == b"\xff"
IsSentinel(b) == b = <<255>>

\* --------------------------- Server._receiveData, after the loop (202-210)
RD_Done(t) ==
    /\ pc[t] = "rd_done"
    /\ IF IsSentinel(allData[t])
       THEN IF connectedSocket = 0
            THEN /\ Raise(t, "TypeError")
                 /\ UNCHANGED <<connectedSocket, sockOpen, receivedData, appended>>
            ELSE /\ sockOpen' = sockOpen \ {connectedSocket}
                 /\ connectedSocket' = 0
                 /\ Goto(t, AfterReceive(t))
                 /\ UNCHANGED <<receivedData, appended>>
       ELSE IF Truthy(allData[t])
       THEN /\ receivedData' = QueueAppend(receivedData, allData[t])
            /\ appended' = Append(appended, allData[t])
            /\ Goto(t, AfterReceive(t))
            /\ UNCHANGED <<connectedSocket, sockOpen>>
       ELSE /\ Goto(t, AfterReceive(t))
            /\ UNCHANGED <<connectedSocket, sockOpen, receivedData, appended>>
    /\ UNCHANGED <<serverOpen, lsock, netVars, allData, blocking, call, callSent,
                   ncalls, filePos, amountOfDataSent, pmVars, input>>

\* Server.identificationFunction, by default testMACAddress
identificationFunction(identification) == testMACAddress(identification)

\* What self.identificationFunction(identification) can do. The default
\* predicate returns what testMACAddress returns. A predicate of the user's is
\* any function: it may return true, return false or raise on any reply.
PredicateOutcomes(pred, identification) ==
    IF pred = "default"
    THEN {IF identificationFunction(identification) THEN "true" ELSE "false"}
    ELSE {"true", "false", "raise"}

\* ----------------- Server.askIdentification, the predicate on the reply
\* askIdentification has no handler: what the predicate raises goes up to the
\* caller, Server.run (no handler either) or _handleCommand (caught at 311).
\* In Server.run a True verdict goes on to self._receiveData() (326) and a
\* False one to the rejection (320-324). The console's "id" drops the verdict.
Verdict(t) ==
    /\ pc[t] = "verdict"
    /\ \E outcome \in PredicateOutcomes(input.pred, allData[t]) :
         IF outcome = "raise"
         THEN /\ Raise(t, "PredicateError")
              /\ UNCHANGED <<allData, blocking>>
         ELSE IF t = "cli"
         THEN /\ pc' = [pc EXCEPT ![t] = "idle"]
              /\ result' = "ok"
              /\ UNCHANGED <<allData, blocking>>
         ELSE IF outcome = "true"
         THEN /\ Goto(t, "rd_first")
              /\ allData' = [allData EXCEPT ![t] = None]
              /\ blocking' = [blocking EXCEPT ![t] = FALSE]
         ELSE /\ Goto(t, "id_reject")
              /\ UNCHANGED <<allData, blocking>>
    /\ UNCHANGED <<srvObj, netVars, call, callSent, ncalls, filePos,
                   amountOfDataSent, pmVars, input, appended>>

\* ------------------------------- Server.run, the rejected peer (320-324)
S_Reject ==
    /\ pc["srv"] = "id_reject"
    /\ IF connectedSocket = 0
       THEN /\ Raise("srv", "TypeError")
            /\ UNCHANGED <<connectedSocket, sockOpen>>
       ELSE /\ sockOpen' = sockOpen \ {connectedSocket}
            /\ connectedSocket' = 0
            /\ Goto("srv", "loop")
    /\ UNCHANGED <<serverOpen, receivedData, lsock, netVars, allData, blocking,
                   call, callSent, ncalls, filePos, amountOfDataSent, pmVars,
                   input, appended>>

\* ----------------------------------- Server.stop, the peer part (336-339)
Stop_Peer ==
    /\ pc["cli"] = "stop_peer"
    /\ IF connectedSocket # 0
       THEN /\ sockOpen' = sockOpen \ {connectedSocket}
            /\ connectedSocket' = 0
       ELSE UNCHANGED <<connectedSocket, sockOpen>>
    /\ Goto("cli", "stop_close")
    /\ UNCHANGED <<serverOpen, receivedData, lsock, netVars, allData, blocking,
                   call, callSent, ncalls, filePos, amountOfDataSent, pmVars,
                   input, appended>>

\* ------------------------------------- Server.stop, self._close() (342)
\* _close returns at once when the server is not open; else it closes the
\* listening socket and replaces it by a fresh one.
Stop_Close ==
    /\ pc["cli"] = "stop_close"
    /\ IF ~serverOpen
       THEN UNCHANGED <<serverOpen, lsock, pending>>
       ELSE /\ serverOpen' = FALSE
            /\ lsock' = "fresh"
            /\ pending' = 0
    /\ pc' = [pc EXCEPT !["cli"] = "idle"]
    /\ result' = "ok"
    /\ UNCHANGED <<connectedSocket, receivedData, sockOpen, nconn, peer, inbuf,
                   events, srvSent, allData, blocking, call, callSent, ncalls,
                   filePos, amountOfDataSent, pmVars, input, appended>>

\* ------------------------------------------------------------ Server.sendFile
\* the content of the file of length n: byte i is i mod 256
FileContent(n) == [i \in 1..n |-> i % 256]

\* file.read(k) at position pos of the file of length n
FileRead(n, pos, k) ==
    IF pos >= n \/ k = 0 THEN <<>>
    ELSE IF k < 0 THEN SubSeq(FileContent(n), pos + 1, n)
    ELSE SubSeq(FileContent(n), pos + 1, IF pos + k > n THEN n ELSE pos + k)

\* a chunk size that leaves no room for the header
ChunkSizeWhole == BufferSize

\* the size sendFile reads at a time
ChunkSize == BufferSize - 1

\* a sendFile that takes every path for a file
IsFileAlways(len) == TRUE

\* os.path.isfile(path): a path of length -1 is no file
IsFile(len) == len >= 0

\* the test of sendFile on its path (279-281)
SendFile_Check ==
    /\ pc["cli"] = "sf_check"
    /\ IF ~IsFile(call.len)
       THEN /\ Raise("cli", "FileNotFound")
            /\ UNCHANGED <<filePos, amountOfDataSent>>
       ELSE /\ Goto("cli", "sf_send")
            /\ filePos' = 0
            /\ amountOfDataSent' = 0
    /\ UNCHANGED <<srvObj, netVars, allData, blocking, call, callSent, ncalls,
                   pmVars, input, appended>>

\* a sendFile that counts a chunk before it is sent
SendFile_SendCountsFirst ==
    /\ pc["cli"] = "sf_send"
    /\ LET readData == FileRead(call.len, filePos, ChunkSize) IN
       IF readData = <<>>
       THEN /\ pc' = [pc EXCEPT !["cli"] = "idle"]
            /\ result' = "ok"
            /\ UNCHANGED <<srvSent, callSent, filePos, amountOfDataSent>>
       ELSE \/ /\ IsByte(FileHeader(call.info))
               /\ connectedSocket # 0
               /\ UNCHANGED srvSent
               /\ callSent' = Append(callSent, <<FileHeader(call.info)>> \o readData)
               /\ filePos' = filePos + Len(readData)
               /\ amountOfDataSent' = amountOfDataSent + Len(readData)
               /\ Goto("cli", "sf_send")
            \/ /\ ~IsByte(FileHeader(call.info)) \/ connectedSocket = 0 \/ peer # "up"
               /\ Raise("cli", "Transmission")
               /\ amountOfDataSent' = amountOfDataSent + Len(readData)
               /\ UNCHANGED <<srvSent, callSent, filePos>>
    /\ UNCHANGED <<srvObj, nconn, pending, peer, inbuf, events, allData,
                   blocking, call, ncalls, pmVars, input, appended>>

\* One turn of the loop of sendFile (289-298): the chunk is read, and sent
\* behind its header. bytes([...]) raises for a header outside 0..255 and
\* sendall raises as in _sendCommand; the except clause turns every exception
\* into socket.error.
SendFile_Send ==
    /\ pc["cli"] = "sf_send"
    /\ LET readData == FileRead(call.len, filePos, ChunkSize) IN
       IF readData = <<>>
       THEN /\ pc' = [pc EXCEPT !["cli"] = "idle"]
            /\ result' = "ok"
            /\ UNCHANGED <<srvSent, callSent, filePos, amountOfDataSent>>
       ELSE \/ /\ IsByte(FileHeader(call.info))
               /\ connectedSocket # 0
               /\ UNCHANGED srvSent
               /\ callSent' = Append(callSent, <<FileHeader(call.info)>> \o readData)
               /\ filePos' = filePos + Len(readData)
               /\ amountOfDataSent' = amountOfDataSent + Len(readData)
               /\ Goto("cli", "sf_send")
            \/ /\ ~IsByte(FileHeader(call.info)) \/ connectedSocket = 0 \/ peer # "up"
               /\ Raise("cli", "Transmission")
               /\ UNCHANGED <<srvSent, callSent, filePos, amountOfDataSent>>
    /\ UNCHANGED <<srvObj, nconn, pending, peer, inbuf, events, allData,
                   blocking, call, ncalls, pmVars, input, appended>>

\* ------------------------------------------ ProgramManager._handleCommand
\* data[0] of a command is "none" (no argument), "all", "int" (a decimal
\* number, n) or "word" (any other text); int(data[0]) raises for the last two.
PlanFail == [act |-> "fail", hw |-> 0, cmd |-> 0, info |-> 0]
PlanSend(hw, cmd, info) == [act |-> "send", hw |-> hw, cmd |-> cmd, info |-> info]

\* a rstptr range check that is off by one at the top
RstptrInRangeLoose(info) == info >= 0 /\ info <= 9

\* the range check of rstptr: info < 0 or info > 8 is refused
RstptrInRange(info) == info >= 0 /\ info <= 8

\* a load and route range check that is off by one at the top
LoadInRangeLoose(info) == info >= 0 /\ info <= 8

\* the range check of load and route: info < 0 or info > 7 is refused
LoadInRange(info) == info >= 0 /\ info <= 7

\* a dispatcher that takes every line for "status"
DispatchPlanLenient(command, kind, n) == PlanSend(1, 0, 0)

\* what _handleCommand does with a command and its first argument, up to
\* the call it makes on the Server
DispatchPlan(command, kind, n) ==
    CASE command = "exit" -> [act |-> "stop", hw |-> 0, cmd |-> 0, info |-> 0]
      [] command = "id" -> [act |-> "id", hw |-> 0, cmd |-> 0, info |-> 0]
      [] command = "load" ->
            IF kind # "int" THEN PlanFail
            ELSE IF ~LoadInRange(n) THEN PlanFail
            ELSE [act |-> "file", hw |-> 0, cmd |-> 0, info |-> n]
      [] command = "rstptr" ->
            IF kind = "none" \/ kind = "word" THEN PlanFail
            ELSE IF ~RstptrInRange(IF kind = "all" THEN 8 ELSE n) THEN PlanFail
            ELSE PlanSend(0, 2, IF kind = "all" THEN 8 ELSE n)
      [] command = "status" -> PlanSend(1, 0, 0)
      [] command = "route" ->
            IF kind # "int" THEN PlanFail
            ELSE IF ~LoadInRange(n) THEN PlanFail
            ELSE PlanSend(1, 1, n)
      [] command = "rstfifo" -> PlanSend(1, 2, 0)
      [] command = "rstfpga" -> PlanSend(1, 2, 1)
      [] command = "custom" -> [act |-> "custom", hw |-> 0, cmd |-> 0, info |-> 0]
      [] OTHER -> [act |-> "unknown", hw |-> 0, cmd |-> 0, info |-> 0]

\* a public sendCommand that refuses nothing
SendCommandDeflectsNothing(hw, cmd) == FALSE

\* the test of the public sendCommand that refuses to send a load header
SendCommandDeflects(hw, cmd) == hw = 0 /\ cmd = 1

\* a console call starts
Begin(c) ==
    /\ pc["cli"] = "idle"
    /\ events < MaxEvents
    /\ events' = events + 1
    /\ call' = c
    /\ callSent' = <<>>
    /\ ncalls' = ncalls + 1

\* Server.sendCommand (213-226), entered by the console thread
EnterSendCommand(hw, cmd) ==
    IF SendCommandDeflects(hw, cmd)
    THEN /\ pc' = [pc EXCEPT !["cli"] = "idle"]
         /\ result' = "warned"
    ELSE /\ pc' = [pc EXCEPT !["cli"] = "sc_check"]
         /\ result' = "running"

\* One line of the console: the command is run up to its first step on the
\* Server. "exit" stops the terminal and the decode loop before Server.stop.
HandleCommand(command, kind, n, len) ==
    /\ termRunning
    /\ LET plan == DispatchPlan(command, kind, n) IN
       /\ Begin([op |-> "dispatch", command |-> command, kind |-> kind, n |-> n,
                 hw |-> plan.hw, cmd |-> plan.cmd, info |-> plan.info, len |-> len])
       /\ CASE plan.act = "stop" ->
                 /\ pc' = [pc EXCEPT !["cli"] = "stop_peer"]
                 /\ result' = "running"
                 /\ termRunning' = FALSE
                 /\ hrdRunning' = FALSE
            [] plan.act = "id" ->
                 /\ pc' = [pc EXCEPT !["cli"] = "sc_check"]
                 /\ result' = "running"
                 /\ UNCHANGED <<termRunning, hrdRunning>>
            [] plan.act = "file" ->
                 /\ pc' = [pc EXCEPT !["cli"] = "sf_check"]
                 /\ result' = "running"
                 /\ UNCHANGED <<termRunning, hrdRunning>>
            [] plan.act = "send" ->
                 /\ EnterSendCommand(plan.hw, plan.cmd)
                 /\ UNCHANGED <<termRunning, hrdRunning>>
            [] plan.act = "custom" ->
                 /\ pc' = [pc EXCEPT !["cli"] = "custom_send"]
                 /\ result' = "running"
                 /\ UNCHANGED <<termRunning, hrdRunning>>
            [] plan.act = "fail" ->
                 /\ pc' = [pc EXCEPT !["cli"] = "idle"]
                 /\ result' = "Validation"
                 /\ UNCHANGED <<termRunning, hrdRunning>>
            [] OTHER ->
                 /\ pc' = [pc EXCEPT !["cli"] = "idle"]
                 /\ result' = "unknown"
                 /\ UNCHANGED <<termRunning, hrdRunning>>
    /\ UNCHANGED <<srvObj, nconn, pending, peer, inbuf, srvSent, allData, blocking,
                   filePos, amountOfDataSent, popResult, decoded, popped, input,
                   appended>>

\* ------------------------------------------ _handleCommand, "custom"
\* the kinds of line that have -b as their first argument: with a word of
\* digits behind it, with more words behind that, or with nothing behind it
BitKinds == {"bits", "bitsextra", "bitsnone"}

\* a bit string padded with zeros on the left
PaddedBitStringLeft(bits) ==
    Zeros(((Len(bits) + 7) \div 8) * 8 - Len(bits)) \o bits

\* data[1].ljust((len(data[1]) + 7) // 8 * 8, '0') (301)
PaddedBitString(bits) ==
    bits \o Zeros(((Len(bits) + 7) \div 8) * 8 - Len(bits))

\* int(chunk, 2): the first digit is the most significant
RECURSIVE IntBase2(_)
IntBase2(chunk) ==
    IF chunk = <<>> THEN 0
    ELSE 2 * IntBase2(SubSeq(chunk, 1, Len(chunk) - 1)) + chunk[Len(chunk)]

\* the bytearray of 303: one byte for every eight digits of the padded string
BitsToBytes(bits) ==
    LET padded == PaddedBitString(bits) IN
    [i \in 1..(Len(padded) \div 8) |-> IntBase2(SubSeq(padded, 8 * i - 7, 8 * i))]

\* str.encode() of one character (UTF-8, up to two bytes)
Utf8(c) == IF c < 128 THEN <<c>> ELSE <<192 + (c \div 64), 128 + (c % 64)>>

\* str.encode()
RECURSIVE EncodeStr(_)
EncodeStr(str) == IF str = <<>> THEN <<>> ELSE Utf8(Head(str)) \o EncodeStr(Tail(str))

\* " ".join(data)
RECURSIVE JoinSpace(_)
JoinSpace(data) ==
    IF data = <<>> THEN <<>>
    ELSE IF Len(data) = 1 THEN data[1]
    ELSE data[1] \o <<32>> \o JoinSpace(Tail(data))

\* the words behind "custom" on a line of the given kind that is sent as text
CustomWords(kind) == IF kind = "none" THEN <<>> ELSE input.words

\* what custom hands to sendall: with -b the bytes of the bit string padded
\* to the buffer size (305), else the line as text (307)
CustomBytes(kind) ==
    IF kind \in BitKinds THEN Ljust(BitsToBytes(input.bits), BufferSize)
    ELSE EncodeStr(JoinSpace(CustomWords(kind)))

\* what the conversion of -b raises before anything is sent: data[1] of a
\* line that ends at -b (IndexError), int() of a chunk with a character that
\* is no binary digit (ValueError); "" when it raises nothing
CustomRaises(kind) ==
    IF kind = "bitsnone" THEN "IndexError"
    ELSE IF kind \in BitKinds /\ \E i \in 1..Len(input.bits) : input.bits[i] \notin {0, 1}
    THEN "ValueError"
    ELSE ""

\* custom (294-307): the conversion, then a raw sendall on the connected
\* socket
Custom_Send ==
    /\ pc["cli"] = "custom_send"
    /\ IF CustomRaises(call.kind) # ""
       THEN /\ Raise("cli", CustomRaises(call.kind))
            /\ UNCHANGED <<srvSent, callSent>>
       ELSE \/ /\ connectedSocket # 0
               /\ UNCHANGED srvSent
               /\ callSent' = Append(callSent, CustomBytes(call.kind))
               /\ pc' = [pc EXCEPT !["cli"] = "idle"]
               /\ result' = "ok"
            \/ /\ connectedSocket = 0 \/ peer # "up"
               /\ Raise("cli", IF connectedSocket = 0 THEN "TypeError" ELSE "Transmission")
               /\ UNCHANGED <<srvSent, callSent>>
    /\ UNCHANGED <<srvObj, nconn, pending, peer, inbuf, events, allData,
                   blocking, call, ncalls, filePos, amountOfDataSent, pmVars,
                   input, appended>>

\* ------------------------------------- _handleCommand, the console history
\* An entry of the history is <<flag, text>>; the text of a failure entry is
\* the error.
\* custom -b with words behind the bit string adds a warning first (296-297)
WarningEntries(c) ==
    IF c.command = "custom" /\ c.kind = "bitsextra"
    THEN << <<"BOLD", "warning">> >> ELSE <<>>

\* a dispatcher that says nothing of a command it does not know
HistoryEntriesSilent(c, res) ==
    IF c.command = "exit" \/ res = "unknown" THEN <<>>
    ELSE IF res \in {"ok", "warned"}
    THEN Append(WarningEntries(c), <<"SENT", "executed">>)
    ELSE Append(WarningEntries(c), <<"ALERT", res>>)

\* What one call of _handleCommand has added to the history when it returns
\* with result res: "exit" returns at 268 and "command unknown" at 310, an
\* exception goes to the except clause (311-313), and a body that ends
\* normally goes to the else clause (314-316).
HistoryEntries(c, res) ==
    IF c.command = "exit" THEN <<>>
    ELSE IF res = "unknown" THEN << <<"ALERT", "command unknown">> >>
    ELSE IF res \in {"ok", "warned"}
    THEN Append(WarningEntries(c), <<"SENT", "executed">>)
    ELSE Append(WarningEntries(c), <<"ALERT", res>>)

\* what the command in hand has added to the history so far
Entries ==
    IF call.op # "dispatch" THEN <<>>
    ELSE IF pc["cli"] = "idle" THEN HistoryEntries(call, result)
    ELSE IF pc["cli"] = "custom_send" THEN WarningEntries(call)
    ELSE <<>>

\* ------------------------------- direct calls of the public Server methods
\* server.sendCommand(hw, cmd, info) with the arguments of this run
ApiSendCommand ==
    /\ Begin([op |-> "sendCommand", command |-> "", kind |-> "none", n |-> 0,
              hw |-> input.hw, cmd |-> input.cmd, info |-> input.info, len |-> 0])
    /\ EnterSendCommand(input.hw, input.cmd)
    /\ UNCHANGED <<srvObj, nconn, pending, peer, inbuf, srvSent, allData, blocking,
                   filePos, amountOfDataSent, pmVars, input, appended>>

\* server.sendFile(path, info) with the arguments of this run
ApiSendFile ==
    /\ Begin([op |-> "sendFile", command |-> "", kind |-> "none", n |-> 0,
              hw |-> 0, cmd |-> 0, info |-> input.info, len |-> input.len])
    /\ pc' = [pc EXCEPT !["cli"] = "sf_check"]
    /\ result' = "running"
    /\ UNCHANGED <<srvObj, nconn, pending, peer, inbuf, srvSent, allData, blocking,
                   filePos, amountOfDataSent, pmVars, input, appended>>

\* --------------------------------------------------------------- the peers
\* a peer asks for a connection: it waits in the backlog of listen(1)
PeerConnect ==
    /\ lsock = "listening"
    /\ pending = 0
    /\ events < MaxEvents
    /\ events' = events + 1
    /\ pending' = pending + 1
    /\ UNCHANGED <<srvObj, nconn, peer, inbuf, srvSent, thrVars, cliVars, pmVars,
                   input, appended>>

\* the blocks a peer sends
Sentinel == <<255>>
GoodId == <<0, 0, 10, 53, 0, 1, 2>>
BadId == <<0, 9>>
StatusReply == <<128, 1>>
FullBlock == [i \in 1..BufferSize |-> 33]
PeerMsgs == {Sentinel, GoodId, BadId}

\* the peer of the newest connection sends a block
PeerSend(m) ==
    /\ nconn \in sockOpen
    /\ peer = "up"
    /\ events < MaxEvents
    /\ events' = events + 1
    /\ inbuf' = inbuf \o m
    /\ UNCHANGED <<srvObj, nconn, pending, peer, srvSent, thrVars, cliVars, pmVars,
                   input, appended>>

\* the peer of the newest connection closes its end
PeerClose ==
    /\ nconn \in sockOpen
    /\ peer = "up"
    /\ events < MaxEvents
    /\ events' = events + 1
    /\ peer' = "fin"
    /\ UNCHANGED <<srvObj, nconn, pending, inbuf, srvSent, thrVars, cliVars, pmVars,
                   input, appended>>

\* the connection is reset: what was in flight is lost
PeerReset ==
    /\ nconn \in sockOpen
    /\ peer = "up"
    /\ events < MaxEvents
    /\ events' = events + 1
    /\ peer' = "rst"
    /\ inbuf' = <<>>
    /\ UNCHANGED <<srvObj, nconn, pending, srvSent, thrVars, cliVars, pmVars,
                   input, appended>>

\* ------------------------------------- ProgramManager._handleReceivedData
\* a pop that hands out the newest block
QueueNewest(q) == q[Len(q)]

\* getReceivedData().pop(0): the block taken, and what is left
QueueOldest(q) == Head(q)
QueueRest(q) == Tail(q)

P_Start ==
    /\ pc["pm"] = "start"
    /\ hrdRunning' = TRUE
    /\ Goto("pm", "hrd")
    /\ UNCHANGED <<srvObj, netVars, allData, blocking, cliVars, termRunning,
                   popResult, decoded, popped, input, appended>>

\* One turn of the loop: pop(0) raises IndexError on the empty queue (the
\* loop sleeps and goes on); an empty block is skipped; else the header byte
\* is decoded.
P_Pop ==
    /\ pc["pm"] = "hrd"
    /\ hrdRunning
    /\ IF receivedData = <<>>
       THEN /\ popResult' = "empty"
            /\ UNCHANGED <<receivedData, popped, decoded>>
       ELSE /\ popResult' = "block"
            /\ popped' = Append(popped, QueueOldest(receivedData))
            /\ receivedData' = QueueRest(receivedData)
            /\ decoded' = IF Len(QueueOldest(receivedData)) = 0 THEN decoded
                          ELSE Decode(QueueOldest(receivedData)[1])
    /\ UNCHANGED <<serverOpen, connectedSocket, lsock, sockOpen, netVars, thrVars,
                   cliVars, hrdRunning, termRunning, input, appended>>

P_Exit ==
    /\ pc["pm"] = "hrd"
    /\ ~hrdRunning
    /\ Goto("pm", "done")
    /\ UNCHANGED <<srvObj, netVars, allData, blocking, cliVars, pmVars, input,
                   appended>>

\* ------------------------------------------------------- specifications
\* the steps of the Server thread and of the Server code a console call runs
ServerSteps ==
    \/ S_Open
    \/ S_Loop
    \/ S_Accept
    \/ S_Reject
    \/ \E t \in Threads : SC_Check(t)
    \/ \E t \in Threads : SC_Send(t)
    \/ \E t \in Threads : RD_First(t)
    \/ \E t \in Threads : RD_More(t)
    \/ \E t \in Threads : RD_Done(t)
    \/ \E t \in Threads : Verdict(t)

\* every line the operator types in the runs of SpecConsole
ConsoleLines ==
    { <<"exit", "none", 0>>, <<"id", "none", 0>>,
      <<"load", "int", 0>>, <<"load", "int", 7>>, <<"load", "int", 8>>,
      <<"load", "none", 0>>,
      <<"rstptr", "all", 0>>, <<"rstptr", "int", 0>>, <<"rstptr", "int", 8>>,
      <<"rstptr", "int", 9>>, <<"rstptr", "int", -1>>, <<"rstptr", "none", 0>>,
      <<"rstptr", "word", 0>>,
      <<"status", "none", 0>>, <<"route", "int", 7>>, <<"route", "int", 8>>,
      <<"rstfifo", "none", 0>>, <<"rstfpga", "none", 0>>,
      <<"custom", "word", 0>>, <<"help", "none", 0>>,
      <<"custom", "none", 0>>, <<"custom", "bits", 0>>, <<"custom", "bitsextra", 0>>,
      <<"STATUS", "none", 0>>,
      <<"route", "int", 0>>, <<"route", "int", -1>>, <<"route", "none", 0>>,
      <<"route", "word", 0>>, <<"load", "int", -1>>, <<"load", "word", 0>> }

\* the files the operator picks for load: none (-1), or one of two chunks
ConsoleFiles == {-1, 2 * ChunkSize}

\* the lines the operator types in the runs of Spec
SpecLines == { <<"exit", "none", 0>>, <<"id", "none", 0>>, <<"status", "none", 0>> }

\* the steps of the Server code that only a console call runs
ConsoleSteps ==
    \/ Stop_Peer
    \/ Stop_Close
    \/ SendFile_Check
    \/ SendFile_Send
    \/ Custom_Send

\* the steps of the decode loop
DecodeSteps ==
    \/ P_Start
    \/ P_Pop
    \/ P_Exit

\* The program without its decode loop: the Server thread, the console and
\* the peers.
Next ==
    \/ ServerSteps
    \/ \E l \in SpecLines : HandleCommand(l[1], l[2], l[3], 0)
    \/ Stop_Peer
    \/ Stop_Close
    \/ PeerConnect
    \/ \E m \in PeerMsgs : PeerSend(m)
    \/ PeerClose
    \/ PeerReset

Spec == Init /\ [][Next]_vars

\* The Server thread, the peers and the decode loop: the two ends of the
\* inbound queue. The only line the operator types is "exit".
NextQueue ==
    \/ ServerSteps
    \/ PeerConnect
    \/ \E m \in PeerMsgs \cup {StatusReply, FullBlock} : PeerSend(m)
    \/ DecodeSteps
    \/ HandleCommand("exit", "none", 0, 0)
    \/ Stop_Peer
    \/ Stop_Close

SpecQueue == Init /\ [][NextQueue]_vars

\* The console with every command, a peer that identifies itself and then
\* listens, or resets the connection.
NextConsole ==
    \/ ServerSteps
    \/ \E l \in ConsoleLines, len \in ConsoleFiles : HandleCommand(l[1], l[2], l[3], len)
    \/ ConsoleSteps
    \/ PeerConnect
    \/ PeerSend(GoodId)
    \/ PeerReset

SpecConsole == Init /\ [][NextConsole]_vars

\* ------------------------------------------------- the Server as a library
\* the argument triples of the direct sendCommand calls: every valid triple,
\* and triples around the edges of the valid ranges
ApiTriples ==
    ((0..1) \X (0..7) \X (0..15))
        \cup ({-1, 0, 1, 2} \X {-1, 0, 1, 7, 8} \X {-1, 0, 15, 16})

InitApi ==
    /\ InitProgram
    /\ input \in { [NoInput EXCEPT !.hw = t[1], !.cmd = t[2], !.info = t[3]] :
                      t \in ApiTriples }

\* A program that calls server.sendCommand itself, as the __main__ of
\* server.py does, against a peer that identifies itself or hangs up.
NextApi ==
    \/ ServerSteps
    \/ ApiSendCommand
    \/ PeerConnect
    \/ PeerSend(GoodId)
    \/ PeerSend(Sentinel)

SpecApi == InitApi /\ [][NextApi]_vars

\* the info arguments of the direct sendFile calls
FileInfos == {-1, 0, 7, 15, 16, 128, 256}

InitFile ==
    /\ InitProgram
    /\ input \in { [NoInput EXCEPT !.info = i, !.len = n] :
                      i \in FileInfos, n \in (-1)..MaxFileLen }

\* A program that calls server.sendFile itself, against a peer that
\* identifies itself and may hang up or close.
NextFile ==
    \/ ServerSteps
    \/ ApiSendFile
    \/ SendFile_Check
    \/ SendFile_Send
    \/ PeerConnect
    \/ PeerSend(GoodId)
    \/ PeerSend(Sentinel)
    \/ PeerClose

SpecFile == InitFile /\ [][NextFile]_vars

\* ======================================================================
\* Claims
\* ======================================================================
\* the console call in hand is a direct sendCommand, or was the last call
IsSendCommand == call.op = "sendCommand"

\* a field of the triple is outside its range
OutOfRange(hw, cmd, info) ==
    \/ hw \notin {0, 1}
    \/ cmd \notin 0..7
    \/ info \notin 0..15

\* C1: for every target in {0,1}, command in 0..7 and info in 0..15, the
\* header byte that sendCommand writes decodes, the way the decode loop
\* decodes, to exactly (target, command, info).
C1_RoundTrip ==
    /\ ~OutOfRange(input.hw, input.cmd, input.info) =>
          Decode(EncodeHeader(input.hw, input.cmd, input.info))
              = <<input.hw, input.cmd, input.info>>
    /\ IsSendCommand =>
          \A i \in 1..Len(callSent) :
              /\ callSent[i][1] = EncodeHeader(call.hw, call.cmd, call.info)
              /\ Decode(callSent[i][1]) = <<call.hw, call.cmd, call.info>>

\* C1 witness: the frame of sendCommand(1, 7, 15) was written
C1_Witness ==
    /\ IsSendCommand
    /\ <<call.hw, call.cmd, call.info>> = <<1, 7, 15>>
    /\ Len(callSent) = 1

\* C2 as claimed: a sendCommand with a field out of range fails with the
\* field-validation error and writes nothing, whether or not a peer is
\* attached.
C2_Claimed ==
    (IsSendCommand /\ pc["cli"] = "idle"
        /\ OutOfRange(call.hw, call.cmd, call.info))
    => (result = "Protocol" /\ callSent = <<>>)

\* the console thread leaves the checks of _sendCommand in this step
LeavesCheck == pc["cli"] = "sc_check" /\ pc'["cli"] # "sc_check"

\* a direct sendCommand call starts and returns at once in this step
Deflected == ncalls' # ncalls /\ call'.op = "sendCommand" /\ pc'["cli"] = "idle"

\* C2 amended: a sendCommand with a field out of range never writes a byte;
\* with a peer attached it fails with the field-validation error, except
\* that target 0 with command 1 returns with a warning only; with no peer
\* attached it fails with the not-connected error instead.
C2_OutOfRange ==
    /\ [](IsSendCommand /\ OutOfRange(call.hw, call.cmd, call.info)
            => callSent = <<>>)
    /\ [][(LeavesCheck /\ IsSendCommand /\ OutOfRange(call.hw, call.cmd, call.info))
            => /\ pc'["cli"] = "idle"
               /\ result' = IF connectedSocket # 0 THEN "Protocol" ELSE "NotConnected"
               /\ callSent' = <<>>]_vars
    /\ [][(Deflected /\ OutOfRange(call'.hw, call'.cmd, call'.info))
            => (call'.hw = 0 /\ call'.cmd = 1 /\ result' = "warned"
                /\ callSent' = <<>>)]_vars

\* C2 witness: with a peer attached, sendCommand(1, 0, 16) failed validation
C2_Witness ==
    /\ IsSendCommand
    /\ pc["cli"] = "idle"
    /\ <<call.hw, call.cmd, call.info>> = <<1, 0, 16>>
    /\ result = "Protocol"
    /\ connectedSocket # 0

\* the state of the manager that a failed send must leave alone
ManagerState == <<serverOpen, connectedSocket, sockOpen, lsock, receivedData, srvSent>>

\* C3 as claimed: with no peer attached, sendCommand fails with the
\* not-connected error for every triple, writes nothing and changes nothing.
C3_Claimed ==
    [][((LeavesCheck /\ IsSendCommand) \/ Deflected) /\ connectedSocket = 0
        => /\ pc'["cli"] = "idle"
           /\ result' = "NotConnected"
           /\ callSent' = <<>>
           /\ ManagerState' = ManagerState]_vars

\* C3 amended: with no peer attached, sendCommand writes nothing and changes
\* nothing for every triple; it fails with the not-connected error for every
\* triple but those of target 0 and command 1, for which it returns with a
\* warning only.
C3_NotConnected ==
    [][((LeavesCheck /\ IsSendCommand) \/ Deflected) /\ connectedSocket = 0
        => /\ pc'["cli"] = "idle"
           /\ result' = IF call'.hw = 0 /\ call'.cmd = 1 THEN "warned"
                        ELSE "NotConnected"
           /\ callSent' = <<>>
           /\ ManagerState' = ManagerState]_vars

\* C3 witness: with no peer attached, a valid sendCommand(1, 2, 3) failed as
\* not connected
C3_Witness ==
    /\ IsSendCommand
    /\ pc["cli"] = "idle"
    /\ <<call.hw, call.cmd, call.info>> = <<1, 2, 3>>
    /\ result = "NotConnected"
    /\ connectedSocket = 0
    /\ callSent = <<>>

\* the Server thread leaves position loc in this step
SrvLeaves(loc) == pc["srv"] = loc /\ pc'["srv"] # loc

\* C4: after a peer is accepted, an accepted identification reply takes the
\* manager to the normal receive loop with that peer; a rejected reply makes
\* it close that connection, clear its connection state and go back to
\* accepting, where a second connection attempt is accepted. (Stated for runs
\* in which the console has issued no command.)
C4_IdentificationOutcome ==
    /\ [][(SrvLeaves("verdict") /\ ncalls = 0 /\ identificationFunction(allData["srv"]))
            => /\ pc'["srv"] = "rd_first"
               /\ connectedSocket' = connectedSocket
               /\ connectedSocket # 0]_vars
    /\ [][(SrvLeaves("id_reject") /\ ncalls = 0)
            => /\ pc'["srv"] = "loop"
               /\ connectedSocket' = 0
               /\ sockOpen' = {}]_vars

\* C5: once connected, when the Server thread has read a block that is
\* exactly the byte 0xFF, it closes the peer socket, clears the connection
\* state and goes back to the top of its loop, and the queue gets no entry.
\* (Stated for runs in which the console has not asked to exit.)
C5_SentinelDisconnects ==
    [][(SrvLeaves("rd_done") /\ ~blocking["srv"] /\ IsSentinel(allData["srv"])
            /\ termRunning)
        => /\ pc'["srv"] = "loop"
           /\ connectedSocket' = 0
           /\ sockOpen' = {}
           /\ receivedData' = receivedData]_vars

\* C10: the manager holds at most one peer connection in every state, and a
\* connection is accepted only while none is attached: a second attempt waits
\* until the current connection has been torn down.
C10_OnePeer ==
    /\ [](Cardinality(sockOpen) <= 1)
    /\ [](connectedSocket # 0 => sockOpen = {connectedSocket})
    /\ [][nconn' # nconn => (connectedSocket = 0 /\ sockOpen = {})]_vars

\* C10 witness: a second peer waits in the backlog while the first is attached
\* and has been identified
C10_Witness ==
    /\ connectedSocket = 1
    /\ pending = 1
    /\ pc["srv"] \in {"rd_first", "rd_more", "rd_done"}
    /\ ~blocking["srv"]

\* C10 second witness state: the second peer was accepted after the first left
C10_SecondAccepted == nconn = 2 /\ connectedSocket = 2

\* the last console call was a sendFile that went through the whole file
FileSent == call.op = "sendFile" /\ pc["cli"] = "idle" /\ result = "ok"

\* the payloads of a sequence of chunk frames, end to end
RECURSIVE Payloads(_)
Payloads(frames) ==
    IF frames = <<>> THEN <<>>
    ELSE Tail(Head(frames)) \o Payloads(Tail(frames))

\* the least number of pieces of at most size bytes that hold n bytes
CeilDiv(n, size) == (n + size - 1) \div size

\* C6: sendFile on a file of L bytes with buffer size B emits exactly
\* ceil(L/(B-1)) frames in file order; every frame is one header byte and at
\* most B-1 payload bytes, every frame but the last carries exactly B-1
\* payload bytes, and the payloads end to end are the file; an empty file
\* gives no frame.
C6_FileChunks ==
    /\ (call.op = "sendFile" /\ call.len >= 0) =>
          /\ \A i \in 1..Len(callSent) :
                /\ Len(callSent[i]) >= 2
                /\ Len(callSent[i]) <= BufferSize
          /\ \A i \in 1..(Len(callSent) - 1) : Len(callSent[i]) = BufferSize
          /\ Payloads(callSent) = SubSeq(FileContent(call.len), 1, Len(Payloads(callSent)))
    /\ FileSent =>
          /\ Len(callSent) = CeilDiv(call.len, BufferSize - 1)
          /\ Payloads(callSent) = FileContent(call.len)
          /\ (call.len = 0 => callSent = <<>>)

\* C6 witness: a file of two full chunks and a shorter third one was sent
C6_Witness ==
    /\ FileSent
    /\ call.len = 2 * (BufferSize - 1) + 1
    /\ Len(callSent) = 3
    /\ Len(callSent[3]) = 2

\* C6 second witness state: the empty file was sent to an attached peer
C6_EmptyFile == FileSent /\ call.len = 0 /\ connectedSocket # 0

\* C7 as claimed: every frame of sendFile starts with a header byte whose
\* target bit (bit 7) is 1.
C7_Claimed ==
    call.op = "sendFile" =>
        \A i \in 1..Len(callSent) : DecodeHw(callSent[i][1]) = 1

\* C7 amended: every frame of sendFile(path, info) with info in 0..15 starts
\* with a header byte whose target bit (bit 7) is 0, whose command field is 1
\* and whose info field is info.
C7_FileHeader ==
    (call.op = "sendFile" /\ call.info \in 0..15) =>
        \A i \in 1..Len(callSent) :
            Decode(callSent[i][1]) = <<0, 1, call.info>>

\* C7 witness: two frames of sendFile(path, 7) were written
C7_Witness ==
    /\ call.op = "sendFile"
    /\ call.info = 7
    /\ Len(callSent) = 2

\* C8: whatever the interleaving of the appends of the Server thread and the
\* pops of the decode loop, the blocks popped are a prefix of the blocks
\* appended, in the order of the appends, with the queue holding the rest: no
\* block is lost or handed out twice; a pop on the empty queue signals empty
\* and changes nothing.
C8_Fifo ==
    /\ [](popped \o receivedData = appended)
    /\ [][popped' # popped
            => /\ receivedData # <<>>
               /\ popped' = Append(popped, Head(receivedData))
               /\ receivedData' = Tail(receivedData)
               /\ popResult' = "block"]_vars
    /\ [][(popResult' = "empty" /\ popResult # "empty")
            => /\ receivedData = <<>>
               /\ UNCHANGED <<receivedData, popped, appended>>]_vars

\* C8 witness: one block was popped while a different, later one waits
C8_Witness ==
    /\ Len(popped) >= 1
    /\ Len(receivedData) >= 1
    /\ popped[1] # receivedData[1]
    /\ popResult = "block"

\* C8 second witness state: a pop met the empty queue after a block was taken
C8_EmptyPop == popResult = "empty" /\ Len(popped) >= 1 /\ receivedData = <<>>

\* the argument of a rstptr line is one the dispatcher lets through
RstptrLetThrough == call.kind = "all" \/ (call.kind = "int" /\ call.n \in 0..8)

\* C9: "rstptr all" calls sendCommand(0,2,8), "rstptr n" with 0 <= n <= 8
\* calls sendCommand(0,2,n), and "rstptr n" with n outside 0..8 or with no
\* argument fails validation without writing a byte.
C9_Rstptr ==
    (call.op = "dispatch" /\ call.command = "rstptr") =>
        IF RstptrLetThrough
        THEN LET info == IF call.kind = "all" THEN 8 ELSE call.n IN
             /\ <<call.hw, call.cmd, call.info>> = <<0, 2, info>>
             /\ result # "Validation"
             /\ callSent \in {<<>>, <<CommandFrame(0, 2, info)>>}
             /\ (pc["cli"] = "idle" /\ result = "ok"
                    => callSent = <<CommandFrame(0, 2, info)>>)
        ELSE /\ pc["cli"] = "idle"
             /\ result = "Validation"
             /\ callSent = <<>>

\* C9 witness: "rstptr all" wrote the frame of (0, 2, 8)
C9_Witness ==
    /\ call.command = "rstptr"
    /\ call.kind = "all"
    /\ pc["cli"] = "idle"
    /\ callSent = <<CommandFrame(0, 2, 8)>>

\* C9 second witness state: "rstptr 9" was refused with a peer attached
C9_Refused ==
    /\ call.command = "rstptr"
    /\ call.kind = "int"
    /\ call.n = 9
    /\ result = "Validation"
    /\ connectedSocket # 0
    /\ pc["srv"] = "rd_first"
    /\ ~blocking["srv"]

\* ----------------------------------------------------------- scheduling
\* every step the Server thread can take
SrvThread ==
    \/ S_Open
    \/ S_Loop
    \/ S_Accept
    \/ S_Reject
    \/ SC_Check("srv")
    \/ SC_Send("srv")
    \/ RD_First("srv")
    \/ RD_More("srv")
    \/ RD_Done("srv")
    \/ Verdict("srv")

\* every step the console thread can take once a command is under way
CliThread ==
    \/ SC_Check("cli")
    \/ SC_Send("cli")
    \/ RD_First("cli")
    \/ RD_More("cli")
    \/ RD_Done("cli")
    \/ Verdict("cli")
    \/ Stop_Peer
    \/ Stop_Close

\* The program of Spec with both threads scheduled: a thread that can take a
\* step takes one in the end. The operator and the peers owe nothing.
SpecFair == Init /\ [][Next]_vars /\ WF_vars(SrvThread) /\ WF_vars(CliThread)

\* stop() has just been called on a Server that is open
StopCalled == call.command = "exit" /\ pc["cli"] = "stop_peer" /\ serverOpen

\* the Server thread is over and everything is closed and cleared
Terminated ==
    /\ pc["srv"] \in {"done", "crashed"}
    /\ sockOpen = {}
    /\ lsock # "listening"
    /\ connectedSocket = 0
    /\ ~serverOpen

\* C11: from every state of an open manager, after stop() is called the loop
\* of the Server thread ends in the end, with the peer socket closed, the
\* listening socket closed, the connection state cleared and isRunning()
\* false. (A thread ended by an uncaught exception counts as ended.)
C11_StopTerminates == StopCalled ~> Terminated

\* ------------------------------------------- start() and stop(), called directly
\* The Server is a threading.Thread and start() is the inherited one: the
\* first call starts the thread, which then runs Server.run; any later call
\* raises RuntimeError ("threads can only be started once").
ApiStart ==
    /\ Begin([op |-> "start", command |-> "", kind |-> "none", n |-> 0,
              hw |-> 0, cmd |-> 0, info |-> 0, len |-> 0])
    /\ IF pc["srv"] = "new"
       THEN /\ pc' = [pc EXCEPT !["srv"] = "start"]
            /\ result' = "ok"
       ELSE /\ pc' = pc
            /\ result' = "RuntimeError"
    /\ UNCHANGED <<srvObj, nconn, pending, peer, inbuf, srvSent, allData, blocking,
                   filePos, amountOfDataSent, pmVars, input, appended>>

\* server.stop() called by the program itself
ApiStop ==
    /\ Begin([op |-> "stop", command |-> "", kind |-> "none", n |-> 0,
              hw |-> 0, cmd |-> 0, info |-> 0, len |-> 0])
    /\ pc' = [pc EXCEPT !["cli"] = "stop_peer"]
    /\ result' = "running"
    /\ UNCHANGED <<srvObj, nconn, pending, peer, inbuf, srvSent, allData, blocking,
                   filePos, amountOfDataSent, pmVars, input, appended>>

\* the state after construction of a Server whose thread is not started
InitNew == InitAt("new") /\ input = NoInput

\* A program that starts and stops the Server itself, any number of times,
\* with peers that connect and identify themselves, rightly or wrongly.
NextLifecycle ==
    \/ ServerSteps
    \/ ApiStart
    \/ ApiStop
    \/ Stop_Peer
    \/ Stop_Close
    \/ PeerConnect
    \/ PeerSend(GoodId)
    \/ PeerSend(BadId)

SpecLifecycle == InitNew /\ [][NextLifecycle]_vars

\* a step of a direct stop() call
StopStep ==
    /\ call.op = "stop"
    /\ pc["cli"] \in {"stop_peer", "stop_close"}
    /\ pc'["cli"] # pc["cli"]

\* C12: stop() called when the manager is already stopped (isRunning() is
\* false: it was stopped before, or never started) raises no error and
\* changes no state of the manager; so the second of two stop() calls leaves
\* what the first left.
C12_StopIdempotent ==
    [][(StopStep /\ ~serverOpen)
        => /\ ManagerState' = ManagerState
           /\ result' \in {"running", "ok"}]_vars

\* C13: start() on a manager that was already started raises no error and
\* has no effect: the one Server thread goes on as before.
C13_StartIdempotent ==
    [][(ncalls' # ncalls /\ call'.op = "start" /\ pc["srv"] # "new")
        => /\ result' = "ok"
           /\ pc'["srv"] = pc["srv"]
           /\ ManagerState' = ManagerState]_vars

\* the Server thread, in the receive loop of a connected peer, makes a recv
\* that fails with an error other than "would block": the peer has reset
ReadErrorStep ==
    /\ pc["srv"] \in {"rd_first", "rd_more"}
    /\ pc'["srv"] # pc["srv"]
    /\ ~blocking["srv"]
    /\ connectedSocket # 0
    /\ inbuf = <<>>
    /\ peer = "rst"

\* C14: a read error other than "would block" while connected is treated as
\* a disconnect: the connection is torn down and the Server thread is back at
\* the top of its loop, looking for a peer; the error never ends the loop.
C14_ReadErrorDisconnects ==
    [][ReadErrorStep
        => /\ pc'["srv"] = "loop"
           /\ connectedSocket' = 0
           /\ sockOpen' = {}]_vars

\* ------------------------------------------- a Server with a predicate of the user's
InitCustom == InitProgram /\ input = [NoInput EXCEPT !.pred = "custom"]

\* the program of Spec, built with an identification predicate of the user's
SpecIdent == InitCustom /\ [][Next]_vars

\* C15: whatever the identification predicate does with a peer's reply, the
\* Server thread goes on: to the receive loop when it accepts, and otherwise,
\* also when it raises, to the rejection, which closes the connection, clears
\* the connection state and goes back to looking for a peer. (Stated for runs
\* in which the console has issued no command.)
C15_PredicateException ==
    /\ [][(SrvLeaves("verdict") /\ ncalls = 0 /\ connectedSocket # 0
                /\ pc'["srv"] # "rd_first")
            => pc'["srv"] = "id_reject"]_vars
    /\ [][(SrvLeaves("id_reject") /\ ncalls = 0 /\ connectedSocket # 0)
            => /\ pc'["srv"] = "loop"
               /\ connectedSocket' = 0
               /\ sockOpen' = {}]_vars

\* ------------------------------------------- the Server thread and the peers alone
\* No line is typed on the console: only the Server thread and the peers move.
NextHandshake ==
    \/ ServerSteps
    \/ PeerConnect
    \/ \E m \in PeerMsgs : PeerSend(m)
    \/ PeerClose
    \/ PeerReset

\* the same with the Server thread scheduled
SpecHandshake == Init /\ [][NextHandshake]_vars /\ WF_vars(SrvThread)

\* The peer has dropped the connection during the identification handshake:
\* the Server thread waits for the reply and the peer has closed its end
\* with nothing sent, or the reply it has read is the byte 0xFF.
DroppedInHandshake ==
    /\ blocking["srv"]
    /\ connectedSocket # 0
    /\ \/ pc["srv"] = "rd_first" /\ inbuf = <<>> /\ peer = "fin"
       \/ pc["srv"] = "rd_done" /\ IsSentinel(allData["srv"])

\* the Server thread is looking for a peer, with the connection cleared
BackToAccepting ==
    /\ pc["srv"] \in {"loop", "accept"}
    /\ connectedSocket = 0
    /\ sockOpen = {}

\* C16: if the peer drops the connection during the identification handshake
\* (it closes its end, or its reply is the byte 0xFF), the manager in the end
\* clears the connection and is back looking for a peer, its loop running.
C16_HandshakeDrop == DroppedInHandshake ~> BackToAccepting

\* the peer closed its end during the handshake and the Server thread has
\* seen the empty read
C16_ClosedSeen ==
    /\ pc["srv"] = "rd_first"
    /\ blocking["srv"]
    /\ peer = "fin"
    /\ allData["srv"] = <<>>

\* a command of the console has returned
Dispatched == call.op = "dispatch" /\ pc["cli"] = "idle"

C17_ExitSilent == Dispatched /\ call.command = "exit" /\ Entries = <<>>

\* the errors a command of the console can end with
DispatchErrors ==
    {"Validation", "NotConnected", "Protocol", "Transmission", "FileNotFound",
     "TypeError", "ConnectionReset", "PredicateError"}

\* C18: the dispatcher never lets an error escape: whatever the command, its
\* arguments and the state of the connection, the console thread is never
\* ended by an exception; a command that has returned has succeeded, was
\* unknown, or has failed, and a failure has left a failure entry that
\* carries the error.
C18_NoEscape ==
    /\ pc["cli"] # "crashed"
    /\ Dispatched =>
          /\ result \in DispatchErrors \cup {"ok", "unknown"}
          /\ result \in DispatchErrors =>
                Entries[Len(Entries)] = <<"ALERT", result>>

\* C18 witness: a command failed in the send to an attached peer that had
\* reset the connection, and left its failure entry
C18_Witness ==
    /\ Dispatched
    /\ result = "Transmission"
    /\ connectedSocket # 0
    /\ peer = "rst"
    /\ Entries = << <<"ALERT", "Transmission">> >>

\* C18 second witness state: a command failed validation with no peer
C18_ValidationNoPeer == Dispatched /\ result = "Validation" /\ connectedSocket = 0

\* the command names of the dispatcher's table
DispatcherTable ==
    {"exit", "id", "load", "rstptr", "status", "route", "rstfifo", "rstfpga", "custom"}

\* C19: a command name that is not in the dispatcher's table returns at once
\* with a "command unknown" entry: no byte is sent, and the connection state
\* and the inbound queue are as before.
C19_UnknownCommand ==
    /\ []((call.op = "dispatch" /\ call.command \notin DispatcherTable)
            => /\ pc["cli"] = "idle"
               /\ callSent = <<>>
               /\ Entries = << <<"ALERT", "command unknown">> >>)
    /\ [][(ncalls' # ncalls /\ call'.op = "dispatch"
                /\ call'.command \notin DispatcherTable)
            => /\ ManagerState' = ManagerState
               /\ <<nconn, pending, peer, inbuf>>' = <<nconn, pending, peer, inbuf>>]_vars

\* C19 witness: "help" was typed while a peer was attached and identified
C19_Witness ==
    /\ Dispatched
    /\ call.command = "help"
    /\ connectedSocket # 0
    /\ pc["srv"] = "rd_first"
    /\ ~blocking["srv"]

\* the commands of the table that take a number from 0 to 7
TakesIndex == {"route", "load"}

\* the argument of the command in hand is one its table row lets through
RowLetsThrough ==
    IF call.command \in TakesIndex
    THEN call.kind = "int" /\ call.n \in 0..7
    ELSE TRUE

\* the triple of the table row of the command in hand
RowTriple ==
    CASE call.command = "status" -> <<1, 0, 0>>
      [] call.command = "route" -> <<1, 1, call.n>>
      [] call.command = "rstfifo" -> <<1, 2, 0>>
      [] call.command = "rstfpga" -> <<1, 2, 1>>
      [] OTHER -> <<0, 0, 0>>

\* C20: the dispatcher makes for each command the call of its table row:
\* status -> sendCommand(1,0,0), route i -> sendCommand(1,1,i) for i in 0..7
\* only, rstfifo -> sendCommand(1,2,0), rstfpga -> sendCommand(1,2,1), and
\* load i -> sendFile(path, i) for i in 0..7 only; with the argument out of
\* range or missing nothing is sent.
C20_DispatchTable ==
    /\ (call.op = "dispatch"
          /\ call.command \in {"status", "route", "rstfifo", "rstfpga"}
          /\ RowLetsThrough)
        => /\ <<call.hw, call.cmd, call.info>> = RowTriple
           /\ result # "Validation"
           /\ callSent \in {<<>>,
                  <<CommandFrame(RowTriple[1], RowTriple[2], RowTriple[3])>>}
           /\ (pc["cli"] = "idle" /\ result = "ok") => callSent # <<>>
    /\ (call.op = "dispatch" /\ call.command = "load" /\ RowLetsThrough)
        => /\ call.info = call.n
           /\ result # "Validation"
           /\ \A i \in 1..Len(callSent) : callSent[i][1] = 16 + call.n
           /\ Payloads(callSent) = SubSeq(FileContent(call.len), 1, Len(Payloads(callSent)))
           /\ (pc["cli"] = "idle" /\ result = "ok")
                 => Payloads(callSent) = FileContent(call.len)
    /\ (call.op = "dispatch" /\ call.command \in TakesIndex /\ ~RowLetsThrough)
        => /\ pc["cli"] = "idle"
           /\ result = "Validation"
           /\ callSent = <<>>

\* C20 witness: "route 7" wrote the frame of (1, 1, 7)
C20_Witness ==
    /\ Dispatched
    /\ call.command = "route"
    /\ call.n = 7
    /\ callSent = <<CommandFrame(1, 1, 7)>>

\* C20 second witness state: "load 7" sent its file in two frames
C20_LoadSent ==
    /\ Dispatched
    /\ call.command = "load"
    /\ call.n = 7
    /\ result = "ok"
    /\ Len(callSent) = 2

\* C20 third witness state: "route 8" was refused with a peer attached
C20_Refused ==
    /\ Dispatched
    /\ call.command = "route"
    /\ call.n = 8
    /\ result = "Validation"
    /\ connectedSocket # 0

\* ------------------------------- _handleReceivedData, the entry of a block
\* a display that takes every command 2 of the FPGA for rstfifo
ReceivedTitleNoInfo(hw, cmd, info) ==
    IF hw # 0
    THEN CASE cmd = 0 -> "status"
           [] cmd = 1 -> "route"
           [] cmd = 2 -> "rstfifo"
           [] OTHER -> "received data"
    ELSE CASE cmd = 0 -> "id"
           [] cmd = 1 -> "load"
           [] cmd = 2 -> "rstptr"
           [] OTHER -> "received data"

\* the title of the entry that the decode loop adds for a header (231-254)
ReceivedTitle(hw, cmd, info) ==
    IF hw # 0
    THEN CASE cmd = 0 -> "status"
           [] cmd = 1 -> "route"
           [] cmd = 2 -> IF info # 0 THEN "rstfpga" ELSE "rstfifo"
           [] OTHER -> "received data"
    ELSE CASE cmd = 0 -> "id"
           [] cmd = 1 -> "load"
           [] cmd = 2 -> "rstptr"
           [] OTHER -> "received data"

\* the flag of that entry: ALERT for "could not be found", else RECEIVED
ReceivedFlag(hw, cmd) == IF cmd \in {0, 1, 2} THEN "RECEIVED" ELSE "ALERT"

\* what one turn of the decode loop adds to the history for the block it has
\* popped: nothing for an empty block (213), else the one entry of its header
ReceivedEntries(block) ==
    IF Len(block) = 0 THEN <<>>
    ELSE LET hw == DecodeHw(block[1])
             cmd == DecodeCmd(block[1])
             info == DecodeInfo(block[1])
         IN << <<ReceivedFlag(hw, cmd), ReceivedTitle(hw, cmd, info)>> >>

RECURSIVE ReceivedHistoryOf(_)
ReceivedHistoryOf(blocks) ==
    IF blocks = <<>> THEN <<>>
    ELSE ReceivedEntries(Head(blocks)) \o ReceivedHistoryOf(Tail(blocks))

\* the entries the decode loop has added to the history so far
ReceivedHistory == ReceivedHistoryOf(popped)

\* ------------------------------------------- a peer that sends any header
\* the header fields of the frames the peer of a run sends
DecodeTriples == (0..1) \X {0, 1, 2, 3, 7} \X {0, 15}

InitDecode ==
    /\ InitProgram
    /\ input \in { [NoInput EXCEPT !.hw = t[1], !.cmd = t[2], !.info = t[3]] :
                      t \in DecodeTriples }

\* the frame of the peer of this run: its header byte, alone or with one
\* byte of data behind
PeerFrame(n) ==
    IF n = 1 THEN <<EncodeHeader(input.hw, input.cmd, input.info)>>
    ELSE <<EncodeHeader(input.hw, input.cmd, input.info), 65>>

\* The Server thread, the decode loop and a peer that identifies itself and
\* sends frames of one header, whichever it is.
NextDecode ==
    \/ ServerSteps
    \/ PeerConnect
    \/ PeerSend(GoodId)
    \/ \E n \in 1..2 : PeerSend(PeerFrame(n))
    \/ P_Start
    \/ P_Pop

SpecDecode == InitDecode /\ [][NextDecode]_vars

\* the fields of a header byte, by arithmetic
FieldsOf(b) == <<b \div 128, (b \div 16) % 8, b % 16>>

\* the entry the contract gives a header (target, command, info)
ContractTitle(f) ==
    CASE <<f[1], f[2]>> = <<1, 0>> -> "status"
      [] <<f[1], f[2]>> = <<1, 1>> -> "route"
      [] <<f[1], f[2]>> = <<1, 2>> /\ f[3] = 0 -> "rstfifo"
      [] <<f[1], f[2]>> = <<1, 2>> /\ f[3] # 0 -> "rstfpga"
      [] <<f[1], f[2]>> = <<0, 0>> -> "id"
      [] <<f[1], f[2]>> = <<0, 1>> -> "load"
      [] <<f[1], f[2]>> = <<0, 2>> -> "rstptr"
      [] OTHER -> "warning"

\* C21: every non-empty block popped from the inbound queue has produced
\* exactly one console entry, chosen by its header byte: status for (1,0),
\* route for (1,1), rstfifo for (1,2) with info 0, rstfpga for (1,2) with
\* info non-zero, id for (0,0), load for (0,1), rstptr for (0,2) and a
\* warning entry for every other (target, command); an empty block produces
\* no entry; so the history holds one entry per block popped, in order.
C21_ReceivedEntries ==
    /\ \A i \in 1..Len(popped) :
          LET e == ReceivedEntries(popped[i])
              want == ContractTitle(FieldsOf(popped[i][1]))
          IN /\ popped[i] # <<>>
             /\ Len(e) = 1
             /\ IF want = "warning"
                THEN e[1] = <<"ALERT", "received data">>
                ELSE e[1] = <<"RECEIVED", want>>
    /\ Len(ReceivedHistory) = Len(popped)
    /\ popResult = "block" => decoded = FieldsOf(popped[Len(popped)][1])
    /\ ReceivedEntries(<<>>) = <<>>

\* C21 witness: a frame of header (1, 2, 15) with data behind was popped
\* after the identification reply and shown as rstfpga
C21_Witness ==
    /\ Len(popped) = 2
    /\ popped[2] = <<EncodeHeader(1, 2, 15), 65>>
    /\ ReceivedHistory[2] = <<"RECEIVED", "rstfpga">>

\* C21 second witness state: a frame of a header without a command of its
\* own was popped and shown as a warning
C21_Warned ==
    /\ Len(popped) >= 1
    /\ popped[Len(popped)] = <<EncodeHeader(0, 3, 0)>>
    /\ ReceivedHistory[Len(popped)] = <<"ALERT", "received data">>

\* the console thread is at an operation on the peer socket: the sendall of
\* _sendCommand, of a file chunk or of custom, or a recv of the id re-query
CliOnSocket == pc["cli"] \in {"sc_send", "sf_send", "custom_send", "rd_first", "rd_more"}

\* the Server thread is at an operation on the peer socket: the sendall of
\* the identification command, or a recv of _receiveData
SrvOnSocket == pc["srv"] \in {"sc_send", "rd_first", "rd_more"}

\* C22: access to the peer socket is synchronized between the threads: the
\* console thread is never at a send or a read on the peer socket while the
\* Server thread is at a send or a read on the same socket.
C22_SocketSynchronized == ~(CliOnSocket /\ SrvOnSocket /\ connectedSocket # 0)

\* C22 witness state: both threads are at the sendall of a command frame on
\* the same peer socket
C22_TwoWriters ==
    /\ pc["cli"] = "sc_send"
    /\ pc["srv"] = "sc_send"
    /\ connectedSocket # 0

\* C22 second witness state: both threads are at a blocking recv for the
\* identification reply on the same peer socket
C22_TwoReaders ==
    /\ pc["cli"] = "rd_first"
    /\ pc["srv"] = "rd_first"
    /\ blocking["srv"]
    /\ connectedSocket # 0

\* The peer attached has not passed the identification gate yet: the Server
\* thread is in askIdentification (350-354) or at the rejection (320-324).
InHandshake ==
    /\ connectedSocket # 0
    /\ \/ pc["srv"] \in {"sc_check", "sc_send", "verdict", "id_reject"}
       \/ pc["srv"] \in {"rd_first", "rd_more", "rd_done"} /\ blocking["srv"]

\* the console thread writes at least one byte to the peer socket in this step
CliWrites ==
    /\ Len(callSent') > Len(callSent)
    /\ callSent'[Len(callSent')] # <<>>

\* C23: no frame dispatched by the operator (sendCommand, a sendFile chunk or
\* a custom send) is ever written to a peer that has not yet passed the
\* identification gate: between accept and the verdict of the predicate the
\* console thread writes nothing.
C23_NoFrameBeforeGate == [][CliWrites => ~InHandshake]_vars

\* C23 witness state: the first peer is still waited on for its
\* identification reply and a frame of the operator has been written to it
C23_SentUngated ==
    /\ nconn = 1
    /\ InHandshake
    /\ pc["srv"] = "rd_first"
    /\ call.op = "dispatch"
    /\ call.command # "id"
    /\ callSent # <<>>
    /\ result = "ok"

\* the Server thread has ended before it ever accepted a peer: _open raised
BindFailed == pc["srv"] = "crashed" /\ nconn = 0

\* C24: if binding or listening on the configured address fails at startup,
\* the manager aborts: the Server thread ends there, it never listens, never
\* accepts a peer, and isRunning() stays false, whatever the console and the
\* peers do afterwards.
C24_BindFailure ==
    /\ [][(pc["srv"] = "start" /\ pc'["srv"] # "start" /\ lsock' # "listening")
            => (pc'["srv"] = "crashed" /\ ~serverOpen' /\ lsock' = "fresh")]_vars
    /\ [](BindFailed
            => /\ ~serverOpen
               /\ lsock # "listening"
               /\ connectedSocket = 0
               /\ sockOpen = {}
               /\ pending = 0)
    /\ [][BindFailed => BindFailed']_vars

\* C24 witness: after the failed bind the operator asked for the status and
\* was told that no client is connected
C24_Witness ==
    /\ BindFailed
    /\ Dispatched
    /\ call.command = "status"
    /\ result = "NotConnected"
    /\ ~serverOpen

\* ------------------------------------------- the whole program, scheduled
\* The Server thread, the console with exit as its only line, the decode loop
\* and a peer that identifies itself.
NextShutdown ==
    \/ ServerSteps
    \/ DecodeSteps
    \/ HandleCommand("exit", "none", 0, 0)
    \/ Stop_Peer
    \/ Stop_Close
    \/ PeerConnect
    \/ PeerSend(GoodId)

\* the same with its three threads scheduled: each thread that can take a
\* step takes one in the end. The operator and the peers owe nothing.
SpecShutdown ==
    /\ Init
    /\ [][NextShutdown]_vars
    /\ WF_vars(SrvThread)
    /\ WF_vars(CliThread)
    /\ WF_vars(DecodeSteps)

\* the operator has submitted exit
ExitSubmitted == call.op = "dispatch" /\ call.command = "exit"

\* exit has just been submitted to a program that was fully started: its
\* Server was open and its decode loop was running
ExitJustSubmitted == StopCalled /\ pc["pm"] = "hrd" /\ ~hrdRunning

\* everything is shut down: the console takes no more input, the decode loop
\* is over, no peer connection is open, the listening socket is closed and the
\* Server thread is over
FullShutdown ==
    /\ ~termRunning
    /\ pc["pm"] = "done"
    /\ Terminated

\* C25: after the operator submits exit, a full shutdown happens in the end:
\* the console input loop ends, the decode loop ends, any peer connection is
\* closed, the listening socket is closed and the loop of the Server thread
\* is over. (Stated for an exit submitted once the Server is open and the
\* decode loop has started; a thread ended by an uncaught exception counts as
\* over.)
C25_ExitShutsDown == ExitJustSubmitted ~> FullShutdown

\* C25 witness state: exit has returned and everything is shut down
C25_ShutDown == ExitSubmitted /\ pc["cli"] = "idle" /\ FullShutdown /\ nconn = 1

\* a frame is one header byte h followed by zero bytes up to the buffer size
IsPaddedFrame(f, h) ==
    /\ Len(f) = BufferSize
    /\ f[1] = h
    /\ \A i \in 2..BufferSize : f[i] = 0

\* C26: every frame written by sendCommand is exactly bufferSize bytes long:
\* the encoded header byte followed by bufferSize-1 zero bytes. The same holds
\* of the identification frame the Server thread writes through _sendCommand.
C26_FrameLength ==
    /\ IsSendCommand =>
          \A i \in 1..Len(callSent) :
              IsPaddedFrame(callSent[i], 128 * call.hw + 16 * call.cmd + call.info)
    /\ \A i \in 1..Len(srvSent) : IsPaddedFrame(srvSent[i], 0)

\* C26 witness: the frame of sendCommand(0, 2, 8) was written to an
\* identified peer
C26_Witness ==
    /\ IsSendCommand
    /\ pc["cli"] = "idle"
    /\ result = "ok"
    /\ <<call.hw, call.cmd, call.info>> = <<0, 2, 8>>
    /\ Len(callSent) = 1
    /\ Len(callSent[1]) = BufferSize
    /\ pc["srv"] = "rd_first"
    /\ ~blocking["srv"]

\* the last console call is a direct sendFile on a path that is no file
NoSuchFile == call.op = "sendFile" /\ call.len < 0

\* C27: sendFile(path, info) with a path that is not an existing file fails
\* with a file-not-found error before any byte is written, whether or not a
\* peer is attached, and leaves the manager as it was.
C27_FileNotFound ==
    /\ [](NoSuchFile
            => /\ callSent = <<>>
               /\ pc["cli"] \in {"sf_check", "idle"}
               /\ pc["cli"] = "idle" => result = "FileNotFound")
    /\ [][(NoSuchFile /\ pc["cli"] = "sf_check" /\ pc'["cli"] # "sf_check")
            => /\ result' = "FileNotFound"
               /\ ManagerState' = ManagerState
               /\ amountOfDataSent' = amountOfDataSent]_vars

\* C27 witness: with an identified peer attached, sendFile on a path that is
\* no file has failed
C27_Witness ==
    /\ NoSuchFile
    /\ pc["cli"] = "idle"
    /\ result = "FileNotFound"
    /\ connectedSocket # 0
    /\ pc["srv"] = "rd_first"
    /\ ~blocking["srv"]

\* C27 second witness state: the same with no peer attached
C27_NoPeer ==
    /\ NoSuchFile
    /\ pc["cli"] = "idle"
    /\ result = "FileNotFound"
    /\ connectedSocket = 0

\* the last console call is a direct sendFile that failed in a send
FileSendFailed == call.op = "sendFile" /\ pc["cli"] = "idle" /\ result = "Transmission"

\* C28: if the send of the k-th chunk fails during sendFile (also because the
\* peer was torn down during the transfer), sendFile surfaces a transmission
\* error, sends no further chunk, and the byte count it reports is the total
\* payload of the k-1 chunks already sent.
C28_PartialTransfer ==
    /\ [](FileSendFailed
            => /\ amountOfDataSent = Len(Payloads(callSent))
               /\ amountOfDataSent = Len(callSent) * (BufferSize - 1)
               /\ amountOfDataSent < call.len
               /\ Payloads(callSent) = SubSeq(FileContent(call.len), 1, amountOfDataSent))
    /\ []((call.op = "sendFile" /\ pc["cli"] = "sf_send")
            => amountOfDataSent = Len(Payloads(callSent)))
    /\ [][(call.op = "sendFile" /\ pc["cli"] = "sf_send" /\ Len(callSent') = Len(callSent)
                /\ pc'["cli"] = "idle" /\ filePos < call.len)
            => (result' = "Transmission" /\ amountOfDataSent' = amountOfDataSent)]_vars
    /\ [][(FileSendFailed /\ ncalls' = ncalls) => callSent' = callSent]_vars

\* C28 witness: the peer was torn down after the first chunk of a file of
\* three, and sendFile failed in the second with one chunk counted
C28_Witness ==
    /\ FileSendFailed
    /\ call.len = 2 * (BufferSize - 1) + 1
    /\ Len(callSent) = 1
    /\ amountOfDataSent = BufferSize - 1
    /\ connectedSocket = 0

\* C28 second witness state: the send of the third chunk failed on a peer
\* that had closed its end
C28_ThirdChunk ==
    /\ FileSendFailed
    /\ Len(callSent) = 2
    /\ connectedSocket # 0
    /\ peer = "fin"

\* the identification command frame: target 0, command 0, info 0
IdFrame == CommandFrame(0, 0, 0)

\* a recv of the Server thread hands it bytes of the peer in this step
SrvReads ==
    /\ pc["srv"] \in {"rd_first", "rd_more"}
    /\ allData'["srv"] # allData["srv"]
    /\ Len(inbuf') < Len(inbuf)

\* the Server thread puts a block in the inbound queue in this step
SrvQueues ==
    /\ pc["srv"] = "rd_done"
    /\ pc'["srv"] # "rd_done"
    /\ appended' # appended

\* C29: on every fresh connection (the first one and each one after a
\* disconnect or a rejection) the Server thread writes exactly one frame to
\* the new peer, the identification command frame (0, 0, 0), before it reads
\* anything from that peer and before it queues any block of that peer; it
\* never writes a second one to the same connection.
C29_OneIdentFrame ==
    /\ [](Len(srvSent) <= 1 /\ \A i \in 1..Len(srvSent) : srvSent[i] = IdFrame)
    /\ [][nconn' # nconn => srvSent' = <<>> /\ pc'["srv"] = "sc_check"]_vars
    /\ [][SrvReads => srvSent = <<IdFrame>>]_vars
    /\ [][SrvQueues => srvSent = <<IdFrame>>]_vars
    /\ []((connectedSocket # 0 /\ pc["srv"] \in {"rd_first", "rd_more", "rd_done", "verdict", "id_reject"})
            => srvSent = <<IdFrame>>)

\* C29 witness: the second peer, accepted after the first was rejected, has
\* been sent its one identification frame and its reply has been read
C29_Witness ==
    /\ nconn = 2
    /\ connectedSocket = 2
    /\ srvSent = <<IdFrame>>
    /\ pc["srv"] = "rd_done"
    /\ blocking["srv"]
    /\ allData["srv"] = GoodId

\* ------------------------------------------- peers that reply at any length
\* The Server thread and peers whose replies are the identification, a block
\* of exactly the buffer size, or several of them on end.
NextReply ==
    \/ ServerSteps
    \/ PeerConnect
    \/ PeerSend(GoodId)
    \/ PeerSend(FullBlock)

\* the same with the Server thread scheduled
SpecReply == Init /\ [][NextReply]_vars /\ WF_vars(SrvThread)

\* the Server thread is in the blocking read of the handshake
HandshakeRead ==
    /\ blocking["srv"]
    /\ connectedSocket # 0
    /\ pc["srv"] \in {"rd_first", "rd_more"}

\* ... and has taken bytes of the peer's reply
HoldsReply == HandshakeRead /\ Truthy(allData["srv"])

\* a is the head of b
IsPrefix(a, b) == Len(a) <= Len(b) /\ SubSeq(b, 1, Len(a)) = a

\* C30: during the identification handshake, once the peer has sent a
\* non-empty reply of any length (also exactly the buffer size, or a multiple
\* of it), the blocking read in the end returns it to the predicate, and none
\* of the bytes it has taken is discarded or replaced by later data.
C30_ReplyReturned ==
    /\ [][(HoldsReply /\ allData'["srv"] # allData["srv"])
            => IsPrefix(allData["srv"], allData'["srv"])]_vars
    /\ HoldsReply ~> (pc["srv"] \in {"rd_done", "verdict"})

\* C30 witness state: the blocking read has taken a reply of exactly the
\* buffer size and, with nothing more to read, is back at its first recv
C30_HeldBack ==
    /\ HandshakeRead
    /\ pc["srv"] = "rd_first"
    /\ allData["srv"] = FullBlock
    /\ inbuf = <<>>
    /\ peer = "up"

\* C30 second witness state: the reply of exactly the buffer size is gone and
\* the predicate is given the data that came after it
C30_Replaced ==
    /\ pc["srv"] = "verdict"
    /\ allData["srv"] = GoodId
    /\ nconn = 1
    /\ pending = 0
    /\ inbuf = <<>>
    /\ events = 3

\* The peer attached has passed the identification gate and the Server
\* thread is in its normal receive loop (310-326).
Connected ==
    /\ connectedSocket # 0
    /\ ~blocking["srv"]
    /\ pc["srv"] \in {"loop", "rd_first", "rd_more", "rd_done"}

\* the connected peer has closed its end and has nothing left to be read
PeerGone == Connected /\ peer = "fin" /\ inbuf = <<>>

\* C31: when a connected peer goes away without sending the sentinel (it
\* closes its end, so reads return zero bytes), the manager in the end closes
\* the peer socket, clears the connection state and is back looking for a
\* peer, so that a new peer can be accepted.
C31_PeerGoneDetected == PeerGone ~> BackToAccepting

\* C31 witness state: a read of the receive loop has returned zero bytes from
\* the peer that closed its end
C31_ZeroRead ==
    /\ PeerGone
    /\ pc["srv"] = "rd_done"
    /\ allData["srv"] = <<>>
    /\ sockOpen = {connectedSocket}

\* the Server thread queues the reply it has read during the handshake
HandshakeQueues ==
    /\ pc["srv"] = "rd_done"
    /\ blocking["srv"]
    /\ pc'["srv"] # "rd_done"
    /\ appended' # appended

\* C32: a peer whose identification reply is rejected never enters the
\* normal command phase: no block received from it is appended to the inbound
\* queue, so nothing it sent is decoded, shown in the console history or
\* recorded as the identity of the connected client. A reply read during the
\* handshake is queued only if the predicate accepts it.
C32_RejectedNeverQueued ==
    [][HandshakeQueues => identificationFunction(allData["srv"])]_vars

\* C32 witness state: the only peer so far was rejected and its connection
\* closed, and the decode loop has popped its reply and shown it as an id
C32_RejectedShown ==
    /\ nconn = 1
    /\ connectedSocket = 0
    /\ sockOpen = {}
    /\ pc["srv"] \in {"loop", "accept"}
    /\ popped = <<BadId>>
    /\ ReceivedHistory = << <<"RECEIVED", "id">> >>

\* a recv of the receive loop finds nothing to read from a peer that is up
WouldBlockStep ==
    /\ Connected
    /\ pc["srv"] = "rd_first"
    /\ pc'["srv"] # "rd_first"
    /\ inbuf = <<>>
    /\ peer = "up"

\* _receiveData of the receive loop returns with nothing read
EmptyReturnStep ==
    /\ Connected
    /\ pc["srv"] = "rd_done"
    /\ pc'["srv"] # "rd_done"
    /\ allData["srv"] = None

\* C33: in the receive loop of a connected peer, a receive tick that finds no
\* data available (would block) is not an error: it returns without waiting
\* and leaves the connection state, the inbound queue and the listening state
\* unchanged, and the loop goes on with the same peer.
C33_WouldBlock ==
    /\ [][WouldBlockStep
            => /\ pc'["srv"] = "rd_done"
               /\ allData'["srv"] = None
               /\ ManagerState' = ManagerState
               /\ appended' = appended]_vars
    /\ [][EmptyReturnStep
            => /\ pc'["srv"] = "loop"
               /\ ManagerState' = ManagerState
               /\ appended' = appended]_vars
    /\ [][(Connected /\ pc["srv"] = "loop" /\ pc'["srv"] # "loop" /\ serverOpen)
            => (pc'["srv"] = "rd_first" /\ ManagerState' = ManagerState)]_vars

\* C33 witness: a tick of the receive loop has found nothing to read and has
\* returned to the loop, the identified peer still attached and up
C33_Witness ==
    /\ Connected
    /\ pc["srv"] = "loop"
    /\ allData["srv"] = None
    /\ peer = "up"
    /\ inbuf = <<>>
    /\ sockOpen = {connectedSocket}
    /\ receivedData = <<GoodId>>
    /\ serverOpen

\* the bytes a recv of at most the buffer size takes
Received == Take(inbuf, BufferSize)

\* C34: in the receive loop of a connected peer, every non-empty block read
\* that is not the single byte 0xFF is appended to the inbound queue exactly
\* once and unmodified; when more than bufferSize bytes are there, the
\* successive reads are joined in order into one queue entry, and a read that
\* ends exactly on a buffer-size boundary still queues all the bytes read.
C34_BlockQueuedOnce ==
    /\ [][(Connected /\ pc["srv"] = "rd_first" /\ pc'["srv"] # "rd_first" /\ inbuf # <<>>)
            => /\ allData'["srv"] = Received
               /\ pc'["srv"] = IF Len(Received) = BufferSize THEN "rd_more" ELSE "rd_done"
               /\ appended' = appended]_vars
    /\ [][(Connected /\ pc["srv"] = "rd_more" /\ (pc'["srv"] # "rd_more" \/ allData'["srv"] # allData["srv"]))
            => /\ allData'["srv"] = allData["srv"] \o Received
               /\ inbuf = <<>> => pc'["srv"] = "rd_done"
               /\ appended' = appended]_vars
    /\ [][(~blocking["srv"] /\ pc["srv"] = "rd_done" /\ pc'["srv"] # "rd_done"
                /\ Truthy(allData["srv"]) /\ allData["srv"] # Sentinel)
            => /\ appended' = Append(appended, allData["srv"])
               /\ receivedData' = Append(receivedData, allData["srv"])
               /\ pc'["srv"] = "loop"]_vars
    /\ [][(pc["srv"] = "loop" /\ pc'["srv"] # "loop") => appended' = appended]_vars

\* C34 witness: a block of more than the buffer size, read in two recvs, is
\* one entry of the queue behind the identification reply
C34_Witness ==
    /\ Connected
    /\ pc["srv"] = "loop"
    /\ appended = <<GoodId, FullBlock \o StatusReply>>

\* C34 second witness state: a block of exactly the buffer size was queued
\* whole
C34_Boundary ==
    /\ Connected
    /\ pc["srv"] = "loop"
    /\ peer = "up"
    /\ appended = <<GoodId, FullBlock>>

\* --------------------------------------------- the console's "id" re-query
\* the console thread is inside askIdentification, called by _handleCommand
\* for "id" (programManager.py 269-270): its request is on the wire and it is
\* in the blocking read of the reply
IdRequery ==
    /\ call.command = "id"
    /\ pc["cli"] = "rd_first"
    /\ callSent = <<CommandFrame(0, 0, 0)>>

\* the operator's "id" enters the Server while a peer is connected and
\* identified
IdSubmittedConnected ==
    /\ call.command = "id"
    /\ pc["cli"] = "sc_check"
    /\ Connected
    /\ peer = "up"

\* the request of the re-query is on the wire and the peer has not answered
\* yet
RequestSent ==
    /\ IdRequery
    /\ Connected
    /\ peer = "up"
    /\ inbuf = <<>>

\* the peer of a connected manager has answered the re-query: its reply is
\* waiting on the socket
ReplyPending ==
    /\ IdRequery
    /\ Connected
    /\ peer = "up"
    /\ inbuf = GoodId

\* C35: when the operator submits id while a peer is connected and the peer
\* replies, the re-query of the console thread completes in the end and gives
\* control back to the console, in every interleaving with the receive loop
\* of the Server thread on the same socket.
C35_RequeryCompletes ==
    [](IdSubmittedConnected =>
         [](RequestSent => [](ReplyPending => <>(pc["cli"] = "idle"))))

\* C35: the receive loop has taken and queued the reply to the re-query; the
\* console thread is still in its blocking read, with nothing left to read
C35_ReplyTaken ==
    /\ IdRequery
    /\ Connected
    /\ pc["srv"] = "loop"
    /\ peer = "up"
    /\ inbuf = <<>>
    /\ appended = <<GoodId, GoodId>>

\* ------------------------------------------------- the custom command
\* every string of at most n binary digits
BitStringsUpTo(n) == UNION { [1..k -> {0, 1}] : k \in 0..n }

\* the words the operator types behind "custom -b": short strings of binary
\* digits, strings of 7, 8 and 9 digits, strings that fill the buffer and
\* go one byte beyond it, and a word with a character that is no digit
BitStrings ==
    BitStringsUpTo(3)
        \cup { <<0, 0, 0, 0, 0, 0, 1>>, <<1, 1, 1, 1, 1, 1, 1, 1>>,
               <<1, 0, 0, 0, 0, 0, 0, 1, 1>>,
               [i \in 1..(8 * BufferSize) |-> 1],
               [i \in 1..(8 * (BufferSize + 1)) |-> i % 2],
               <<1, 2>> }

\* the lines of text the operator types behind "custom", word by word: "w",
\* "hi w", "a  b" (two spaces give an empty word), a word longer than the
\* buffer, and a word with a character outside ASCII
WordLists ==
    { << <<119>> >>, << <<104, 105>>, <<119>> >>, << <<97>>, <<>>, <<98>> >>,
      << [i \in 1..(BufferSize + 1) |-> 120] >>, << <<233>>, <<122>> >> }

InitCustomCommand ==
    /\ InitProgram
    /\ input \in { [NoInput EXCEPT !.bits = b] : b \in BitStrings }
                  \cup { [NoInput EXCEPT !.words = w] : w \in WordLists }

\* the custom lines of the operator
CustomLines ==
    { <<"custom", "none", 0>>, <<"custom", "word", 0>>, <<"custom", "bits", 0>>,
      <<"custom", "bitsextra", 0>>, <<"custom", "bitsnone", 0>> }

\* An operator who types custom lines, with or without a peer attached.
NextCustomCommand ==
    \/ ServerSteps
    \/ \E l \in CustomLines : HandleCommand(l[1], l[2], l[3], 0)
    \/ Custom_Send
    \/ PeerConnect
    \/ PeerSend(GoodId)
    \/ PeerReset

SpecCustomCommand == InitCustomCommand /\ [][NextCustomCommand]_vars

\* bit k of a byte, bit 7 being the most significant
BitOf(byte, k) == (byte \div (2 ^ k)) % 2

\* block is what -b has to send for a string of binary digits: digit n of
\* the string is bit 7 - ((n - 1) mod 8) of byte ((n - 1) div 8) + 1, every
\* other bit is 0, and the block is no shorter than the buffer size and no
\* longer than it has to be
IsBitBlock(block, bits) ==
    /\ Len(block) = IF (Len(bits) + 7) \div 8 > BufferSize
                    THEN (Len(bits) + 7) \div 8 ELSE BufferSize
    /\ \A i \in 1..Len(block) :
         /\ block[i] \in 0..255
         /\ \A k \in 0..7 :
              BitOf(block[i], 7 - k) =
                 IF 8 * (i - 1) + k + 1 <= Len(bits)
                 THEN bits[8 * (i - 1) + k + 1] ELSE 0

\* block is the text of the words with one space between two words and
\* nothing before, behind or in place of them
RECURSIVE IsTextBlock(_, _)
IsTextBlock(block, words) ==
    IF words = <<>> THEN block = <<>>
    ELSE LET first == EncodeStr(words[1]) IN
         /\ Len(block) >= Len(first)
         /\ SubSeq(block, 1, Len(first)) = first
         /\ IF Len(words) = 1 THEN Len(block) = Len(first)
            ELSE /\ Len(block) > Len(first)
                 /\ block[Len(first) + 1] = 32
                 /\ IsTextBlock(SubSeq(block, Len(first) + 2, Len(block)), Tail(words))

\* the line in hand is a custom line that the conversion of -b accepts
CustomConverts ==
    /\ call.kind # "bitsnone"
    /\ call.kind \in BitKinds => \A i \in 1..Len(input.bits) : input.bits[i] \in {0, 1}

\* the step of custom that converts and sends
CustomStep == pc["cli"] = "custom_send" /\ pc'["cli"] # "custom_send"

\* C36: custom sends raw bytes without a command header. With -b the bit
\* string is padded on the right with '0' to a multiple of 8 bits, turned
\* into bytes (first bit most significant) and padded with zero bytes to the
\* buffer size before it is sent; without -b the arguments joined by single
\* spaces are sent as text with no padding; with no peer attached nothing is
\* sent and the history gets a failure entry.
C36_CustomSends ==
    /\ [][(CustomStep /\ connectedSocket = 0)
            => /\ callSent' = callSent
               /\ srvSent' = srvSent
               /\ result' # "ok"
               /\ Entries'[Len(Entries')][1] = "ALERT"]_vars
    /\ [][(CustomStep /\ result' = "ok")
            => /\ connectedSocket # 0
               /\ CustomConverts
               /\ Len(callSent') = Len(callSent) + 1
               /\ SubSeq(callSent', 1, Len(callSent)) = callSent
               /\ IF call.kind \in BitKinds
                  THEN IsBitBlock(callSent'[Len(callSent')], input.bits)
                  ELSE IsTextBlock(callSent'[Len(callSent')],
                                   IF call.kind = "none" THEN <<>> ELSE input.words)
               /\ Entries'[Len(Entries')][1] = "SENT"]_vars
    /\ [][(CustomStep /\ connectedSocket # 0 /\ peer = "up" /\ CustomConverts)
            => result' = "ok"]_vars
    /\ [][(CustomStep /\ result' # "ok") => callSent' = callSent]_vars

\* C36 witness: "custom -b 100000011" with a peer attached has sent the
\* bytes 0x81 0x80 and zeros up to the buffer size
C36_Witness ==
    /\ call.command = "custom"
    /\ call.kind = "bits"
    /\ pc["cli"] = "idle"
    /\ result = "ok"
    /\ input.bits = <<1, 0, 0, 0, 0, 0, 0, 1, 1>>
    /\ callSent = << <<129, 128>> \o Zeros(BufferSize - 2) >>

\* C36 second witness state: "custom a  b" has sent the four characters of
\* the line and nothing more
C36_Text ==
    /\ call.command = "custom"
    /\ call.kind = "word"
    /\ result = "ok"
    /\ input.words = << <<97>>, <<>>, <<98>> >>
    /\ callSent = << <<97, 32, 32, 98>> >>

\* C36 third witness state: custom with no peer attached has sent nothing
\* and left a failure entry
C36_NoPeer ==
    /\ call.command = "custom"
    /\ call.kind = "bits"
    /\ pc["cli"] = "idle"
    /\ connectedSocket = 0
    /\ nconn = 0
    /\ result = "TypeError"
    /\ callSent = <<>>
    /\ Entries = << <<"ALERT", "TypeError">> >>

\* ------------------------------------ sendCommand and the load header
\* one of the frames starts with a header of target 0 and command 1
HasLoadHeader(frames) ==
    \E i \in 1..Len(frames) :
        /\ frames[i] # <<>>
        /\ DecodeHw(frames[i][1]) = 0
        /\ DecodeCmd(frames[i][1]) = 1

\* a direct sendCommand with target 0 and command 1 is called in this step
LoadHeaderAsked ==
    /\ ncalls' # ncalls
    /\ call'.op = "sendCommand"
    /\ call'.hw = 0
    /\ call'.cmd = 1

\* C37: the public sendCommand never transmits a frame with target 0 and
\* command 1. For every info and every state of the connection such a call
\* returns without raising, writes no byte and changes nothing of the
\* Server, so no frame written by sendCommand carries the load header.
C37_NoLoadHeader ==
    /\ [](IsSendCommand => ~HasLoadHeader(callSent))
    /\ [][LoadHeaderAsked
            => /\ pc'["cli"] = "idle"
               /\ result' = "warned"
               /\ callSent' = <<>>
               /\ ManagerState' = ManagerState
               /\ <<nconn, pending, peer, inbuf, allData, blocking, appended>>'
                     = <<nconn, pending, peer, inbuf, allData, blocking, appended>>
               /\ pc'["srv"] = pc["srv"]]_vars

\* C37 witness: with a peer attached and identified, sendCommand(0, 1, 15)
\* has returned with its warning and nothing written
C37_Witness ==
    /\ IsSendCommand
    /\ <<call.hw, call.cmd, call.info>> = <<0, 1, 15>>
    /\ pc["cli"] = "idle"
    /\ result = "warned"
    /\ Connected
    /\ peer = "up"
    /\ callSent = <<>>

\* --------------------------------------- the handle under the manager
\* the Server thread is at a statement that subscripts _connectedSocket: a
\* recv (181, 184), the close and the address lookup of a disconnect
\* (204-205) or those of a rejection (320-322)
SrvAtHandle ==
    \/ pc["srv"] \in {"rd_first", "rd_more", "id_reject"}
    \/ pc["srv"] = "rd_done" /\ IsSentinel(allData["srv"])

\* the Server thread runs that statement in this step
SrvUsesHandle == SrvAtHandle /\ pc'["srv"] # pc["srv"]

\* C38: the loop of the Server thread never uses a connection handle that
\* has been cleared: whatever stop() does from another thread and whatever
\* the peer sends during the identification, each read, close or address
\* lookup of the Server thread finds the handle set, so the thread never ends
\* with an unhandled fault.
C38_HandleSet ==
    /\ [][SrvUsesHandle => connectedSocket # 0]_vars
    /\ [][(SrvAtHandle /\ pc'["srv"] = "crashed") => peer = "rst"]_vars

\* C38: with no call from the console and the peer still up, the Server
\* thread has ended on the cleared handle, leaving the Server open
C38_ManagerFault ==
    /\ pc["srv"] = "crashed"
    /\ ncalls = 0
    /\ peer = "up"
    /\ connectedSocket = 0
    /\ serverOpen
    /\ lsock = "listening"
    /\ srvSent = <<CommandFrame(0, 0, 0)>>

\* C38: stop() of the console thread has cleared the handle of an identified
\* peer under the Server thread, and the thread has ended on its next recv
C38_StopFault ==
    /\ pc["srv"] = "crashed"
    /\ call.command = "exit"
    /\ peer = "up"
    /\ connectedSocket = 0
    /\ ~blocking["srv"]
    /\ appended = <<GoodId>>

\* --------------------------------------- the default predicate on replies
\* the two identifiers of the allow-list
FirstId == <<0, 10, 53, 0, 1, 2>>
SecondId == <<1, 35, 69, 103, 137, 171, 205>>

\* The replies of the peers that try the predicate: each identifier behind a
\* header byte of 0 and behind another header byte, with one zero byte
\* behind it, padded with zeros to the buffer size and beyond, without its
\* header byte, without its last byte and with one byte changed; a header
\* byte alone; the identifiers behind one another.
Replies ==
    UNION { { <<0>> \o id, <<145>> \o id, <<0>> \o id \o <<0>>,
              Ljust(<<0>> \o id, BufferSize + 2), id, <<id[1]>> \o id,
              <<0>> \o SubSeq(id, 1, Len(id) - 1),
              <<0>> \o [id EXCEPT ![2] = 11] } : id \in {FirstId, SecondId} }
        \cup { <<0>>, <<0>> \o FirstId \o SecondId, <<0, 0>> \o FirstId }

InitPredicate ==
    /\ InitProgram
    /\ input \in { [NoInput EXCEPT !.reply = r] : r \in Replies }

\* A peer that answers the identification request with the reply of the run
\* and may close its end behind it.
NextPredicate ==
    \/ ServerSteps
    \/ PeerConnect
    \/ PeerSend(input.reply)
    \/ PeerClose

SpecPredicate == InitPredicate /\ [][NextPredicate]_vars

\* the reply without its first byte is, byte for byte, the identifier
IsHeaderThen(reply, id) ==
    /\ Len(reply) = Len(id) + 1
    /\ \A i \in 1..Len(id) : reply[i + 1] = id[i]

\* the Server thread gets the verdict of the predicate in this step
SrvVerdict == pc["srv"] = "verdict" /\ pc'["srv"] # "verdict"

\* C39: the default predicate accepts a reply if and only if the reply
\* without its first (header) byte is exactly one of the allow-listed
\* identifiers; a reply with bytes behind the identifier (zero padding for
\* one), without a header byte or with an empty body is rejected.
C39_Predicate ==
    [][SrvVerdict =>
         ((pc'["srv"] = "rd_first")
            <=> (IsHeaderThen(allData["srv"], FirstId)
                    \/ IsHeaderThen(allData["srv"], SecondId)))]_vars

\* C39 witness: the second identifier behind a header byte other than 0 has
\* been accepted
C39_Witness ==
    /\ Connected
    /\ pc["srv"] = "rd_first"
    /\ input.reply = <<145>> \o SecondId
    /\ appended = << <<145>> \o SecondId >>

\* C39 second witness state: the first identifier with one zero byte behind
\* it has been rejected
C39_Padded ==
    /\ pc["srv"] = "id_reject"
    /\ allData["srv"] = <<0>> \o FirstId \o <<0>>

\* C39 third witness state: the first identifier without a header byte has
\* been rejected
C39_NoHeader ==
    /\ pc["srv"] = "id_reject"
    /\ allData["srv"] = FirstId

\* C39 fourth witness state: a header byte with nothing behind it has been
\* rejected
C39_EmptyBody ==
    /\ pc["srv"] = "id_reject"
    /\ allData["srv"] = <<0>>

\* ------------------------------------------------ sendFile and its info
\* C40: sendFile(path, info) with info outside 0..15 fails with a protocol
\* error before any byte is sent; for every info it accepts, the header byte
\* of each frame it emits has its low 4 bits equal to info, and its command
\* and target bits are the same for every info.
C40_InfoChecked ==
    call.op = "sendFile" =>
        /\ call.info \notin 0..15 =>
              /\ callSent = <<>>
              /\ (pc["cli"] = "idle" /\ IsFile(call.len)) => result = "Protocol"
        /\ \A i \in 1..Len(callSent) :
              /\ DecodeInfo(callSent[i][1]) = call.info
              /\ DecodeHw(callSent[i][1]) = DecodeHw(FileHeader(0))
              /\ DecodeCmd(callSent[i][1]) = DecodeCmd(FileHeader(0))

\* C40: sendFile(path, 16) has written a frame to an identified peer; its
\* header byte is 0x10, whose info field is 0
C40_SentUnchecked ==
    /\ call.op = "sendFile"
    /\ call.info = 16
    /\ Connected
    /\ peer = "up"
    /\ Len(callSent) = 1
    /\ callSent[1][1] = 16
    /\ DecodeInfo(callSent[1][1]) = 0

\* C40: sendFile(path, 128) has written a frame whose header byte is 0x90:
\* the info has set the target bit
C40_TargetSet ==
    /\ call.op = "sendFile"
    /\ call.info = 128
    /\ Len(callSent) >= 1
    /\ callSent[1][1] = 144
    /\ DecodeHw(callSent[1][1]) = 1

\* C40: sendFile(path, 256) of a file with data has failed at the first
\* frame with nothing sent, as a transmission error
C40_NoByteValue ==
    /\ call.op = "sendFile"
    /\ call.info = 256
    /\ call.len > 0
    /\ Connected
    /\ peer = "up"
    /\ pc["cli"] = "idle"
    /\ result = "Transmission"
    /\ callSent = <<>>

====
